---- MODULE Spec2Model ----
\* Job lifecycle engine of the Reppo ACP agent: handlePublishJob (phase
\* controller + execution pipeline), retryPendingJobs (recovery runner), the
\* dedup store with its processing locks, and the pending-jobs write-ahead log.
EXTENDS Integers, Sequences, FiniteSets, TLC

\* ---------------------------------------------------------------- bounds
Procs == {"p1", "p2"}
Jobs == {"j1", "j2", "j3", "j4", "j5"}
Phases == {0, 1, 2}
\* job.phase as the protocol sends it: a number, or missing / not a number
RawPhases == {[isNumber |-> TRUE, n |-> k] : k \in Phases} \cup {[isNumber |-> FALSE, n |-> 0]}
MaxMints == 2
MaxClock == 1
MaxRetryCount == 1
MaxNotifications == 2
MaxRestarts == 1
MaxStorageFaults == 1

\* ------------------------------------------------------ program constants
MAX_ENTRIES == 10000
PHASE_TRANSACTION == 2
ACCEPTED_MAX_AGE_MS == 24 * 60 * 60 * 1000
\* one tick of the model clock, in milliseconds: just over the expiry age
TickMs == ACCEPTED_MAX_AGE_MS + 1

None == "none"

\* ------------------------------------------------------------ job payloads
\* What parseJobContent extracts from each job's memos.  A post URL is
\* [author, id]; NoUrl stands for an absent postUrl; an empty subnets
\* sequence stands for an absent subnet/subnets field.
NoUrl == [author |-> "", id |-> ""]

JobContent ==
  [j \in Jobs |->
     CASE j = "j1" -> [postUrl |-> [author |-> "alice", id |-> "t1"], subnets |-> <<"crypto", "De-Fi">>, agentName |-> TRUE]
       [] j = "j2" -> [postUrl |-> [author |-> "bob", id |-> "t1"], subnets |-> <<"2", "De-Fi">>, agentName |-> FALSE]
       [] j = "j3" -> [postUrl |-> NoUrl, subnets |-> <<"crypto">>, agentName |-> FALSE]
       [] j = "j5" -> [postUrl |-> [author |-> "bob", id |-> "t1"], subnets |-> <<"bogus", "bogus">>, agentName |-> FALSE]
       [] OTHER    -> [postUrl |-> [author |-> "alice", id |-> "t1"], subnets |-> <<>>, agentName |-> FALSE]]

Tweets == {JobContent[j].postUrl.id : j \in Jobs} \ {""}

extractTweetId(url) == url.id

\* ------------------------------------------------------- subnet catalog
\* The catalog getSubnets returns when it answers with a non-empty list.
SubnetList == << [id |-> "1", subnet |-> "crypto"], [id |-> "2", subnet |-> "de fi"] >>

\* normalize: lower-case, runs of space/underscore/hyphen become "_"
normalize(s) ==
  CASE s = "De-Fi" -> "de_fi"
    [] s = "de fi" -> "de_fi"
    [] OTHER -> s

validIds == {SubnetList[i].id : i \in 1..Len(SubnetList)}

\* a lookup that settles for the first catalog entry
FindMatchAny(list, sn) == 1

\* index of the first catalog entry whose normalized name equals the
\* normalized request, 0 when there is none (Array.find)
FindMatch(list, sn) ==
  LET hits == {i \in 1..Len(list) : normalize(list[i].subnet) = normalize(sn)}
  IN IF hits = {} THEN 0 ELSE CHOOSE i \in hits : \A k \in hits : i <= k

\* a list that keeps its repeated entries
DedupeNot(seq) == seq

\* [...new Set(seq)]: first occurrences, in order
RECURSIVE Dedupe(_)
Dedupe(seq) ==
  IF seq = <<>> THEN <<>>
  ELSE LET init == Dedupe(SubSeq(seq, 1, Len(seq) - 1))
           last == seq[Len(seq)]
       IN IF \E i \in 1..Len(init) : init[i] = last THEN init ELSE Append(init, last)

\* the resolution loop of handlePublishJob: each requested subnet is kept
\* when it is a valid id, replaced by the id of the matching name
\* otherwise; "invalid" when some request matches nothing
RECURSIVE ResolveIds(_, _)
ResolveIds(list, req) ==
  IF req = <<>> THEN <<>>
  ELSE LET sn == req[1]
           m == FindMatch(list, sn)
           rest == ResolveIds(list, Tail(req))
       IN IF sn \in {list[i].id : i \in 1..Len(list)} THEN <<sn>> \o rest
          ELSE IF m # 0 THEN <<list[m].id>> \o rest
          ELSE <<"invalid">> \o rest

\* a load that finds nothing in the list
SeqToSetEmpty(seq) == {}

\* the first requested subnet that is neither a catalog id nor a catalog
\* name: the one the resolution loop rejects the job for
RECURSIVE FirstInvalid(_, _)
FirstInvalid(list, req) ==
  IF req = <<>> THEN ""
  ELSE IF req[1] \notin {list[i].id : i \in 1..Len(list)} /\ FindMatch(list, req[1]) = 0
  THEN req[1]
  ELSE FirstInvalid(list, Tail(req))

\* new Set(list)
SeqToSet(seq) == {seq[i] : i \in 1..Len(seq)}

\* ------------------------------------------------------------------ state
VARIABLES
  cache,            \* dedup.ts: in-memory set of processed tweet ids
  mintedJobs,       \* dedup.ts: in-memory set of minted job ids
  processingLocks,  \* dedup.ts: keys of the processingLocks map
  diskProcessed,    \* .reppo-dedup.json: processedTweets (a list)
  diskMinted,       \* .reppo-dedup.json: mintedJobs (a list)
  jobs,             \* pending-jobs.ts: the in-memory Map, in insertion order
  diskJobs,         \* .reppo-pending-jobs.json: jobs
  pods,             \* the reppo-pods table: pod records, by job id
  clock,            \* Date.now(), in ticks
  env,              \* the environment: notifications, restarts and failed writes so far,
                    \* and the jobs notified at phase >= 2 (paid)
  h,                \* one record per handlePublishJob invocation slot
  r,                \* the retryPendingJobs pass
  mintCalls,        \* history: mintPod invocations per tweet
  mints,            \* history: mintPod calls that returned a pod, per tweet
  deliveredOk,      \* history: jobs whose job.deliver returned normally
  last,             \* history: what the last step invoked or ended
  refused,          \* history: jobs rejected because mintPod reported insufficient REPPO
  metadata,         \* the Reppo platform: [job, subnet] of every accepted submitPodMetadata
  st,               \* the store exercised on its own: the last call and what it returned
  px,               \* parseJobContent / normalizeSubnets applied to an input
  wr,               \* one withRetry call
  mt                \* one mintPod call

vars == <<cache, mintedJobs, processingLocks, diskProcessed, diskMinted, jobs,
          diskJobs, pods, clock, env, h, r, mintCalls, mints, deliveredOk, last,
          refused, metadata, st, px, wr, mt>>

dedupVars == <<cache, mintedJobs, diskProcessed, diskMinted>>
walVars == <<jobs, diskJobs>>
histVars == <<mintCalls, mints, deliveredOk>>
\* the variables of the components that are exercised on their own
auxVars == <<st, px, wr, mt>>

\* ------------------------------------------------------- pending-jobs.ts
NoEntry ==
  [jobId |-> None, postUrl |-> NoUrl, subnets |-> <<>>, agentName |-> FALSE,
   status |-> None, mintTxHash |-> 0, podId |-> 0, createdAt |-> 0,
   retryCount |-> 0, lastError |-> FALSE, completedSubnets |-> <<>>]

IndexOf(js, j) ==
  LET hits == {i \in 1..Len(js) : js[i].jobId = j}
  IN IF hits = {} THEN 0 ELSE CHOOSE i \in hits : TRUE

\* getPendingJob: the entry, or NoEntry for undefined
getPendingJob(js, j) == IF IndexOf(js, j) = 0 THEN NoEntry ELSE js[IndexOf(js, j)]

\* jobs.set(job.jobId, job): an existing key keeps its place in the Map
MapSet(js, e) ==
  IF IndexOf(js, e.jobId) = 0 THEN Append(js, e)
  ELSE [js EXCEPT ![IndexOf(js, e.jobId)] = e]

\* jobs.delete(jobId)
MapDelete(js, j) ==
  IF IndexOf(js, j) = 0 THEN js
  ELSE SubSeq(js, 1, IndexOf(js, j) - 1) \o SubSeq(js, IndexOf(js, j) + 1, Len(js))

\* the in-memory part of updatePendingJobStatus(jobId, 'minted', {mintTxHash, podId})
UpdateStatus(js, j, status, tx, pod) ==
  IF IndexOf(js, j) = 0 THEN js
  ELSE [js EXCEPT ![IndexOf(js, j)] =
          [@ EXCEPT !.status = status, !.mintTxHash = tx, !.podId = pod]]

\* the in-memory part of recordPendingJobError
RecordError(js, j) ==
  IF IndexOf(js, j) = 0 THEN js
  ELSE [js EXCEPT ![IndexOf(js, j)] =
          [@ EXCEPT !.retryCount = @ + 1, !.lastError = TRUE]]

\* getPendingJobs: the ids of all entries that are not 'completed', in Map order
getPendingJobs(js) ==
  LET keep == SelectSeq(js, LAMBDA e : e.status # "completed")
  IN [i \in 1..Len(keep) |-> keep[i].jobId]

\* persistWithLock: the whole Map is written when the file lock and the write
\* succeed (ok), nothing is written otherwise; it never throws
persistWithLock(js, disk, ok) == IF ok THEN js ELSE disk

\* initPendingJobs: the Map is rebuilt from the file
initPendingJobs(disk) == disk

\* an add that forgets what the set held
RememberOnly(set, id) == {id}

\* dedup.ts 67 and 137: cache.add(tweetId), mintedJobs.add(id)
Remember(set, id) == set \cup {id}


\* --------------------------------------------------------------- dedup.ts
\* a dedup check that never finds the tweet
hasProcessedNever(t) == FALSE
\* a minted-job check that never finds the job
hasJobMintedNever(j) == FALSE

hasProcessed(t) == t \in cache
hasJobMinted(j) == j \in mintedJobs

\* slice(-MAX_ENTRIES): the newest MAX_ENTRIES entries
Trim(list) ==
  IF Len(list) > MAX_ENTRIES THEN SubSeq(list, Len(list) - MAX_ENTRIES + 1, Len(list))
  ELSE list

\* the file part of markProcessed
PersistProcessed(disk, t, ok) ==
  IF ok /\ t \notin SeqToSet(disk) THEN Trim(Append(disk, t)) ELSE disk

\* the file part of markJobMinted
PersistMinted(disk, j, ok) ==
  IF ok /\ j \notin SeqToSet(disk) THEN Append(disk, j) ELSE disk

\* --------------------------------------------------------- process state
\* the AcpDeliverable handed to job.deliver; hasFailedSubnets says whether the
\* failedSubnets field is present
NoDeliverable ==
  [subnets |-> <<>>, txHash |-> 0, podId |-> 0, failedSubnets |-> <<>>,
   hasFailedSubnets |-> FALSE]

\* one handlePublishJob invocation: pc names the call it awaits, calls lists
\* the calls it has made so far, out is how it returned
\* late says that the notification came in after the mint checkpoint
\* of its tweet had landed in this process
IdleProc ==
  [pc |-> "idle", job |-> None, phase |-> 0, subnets |-> <<>>, tx |-> 0,
   completed |-> <<>>, failed |-> <<>>, calls |-> <<>>, out |-> "",
   deliverable |-> NoDeliverable, late |-> FALSE]

\* the retryPendingJobs pass: pending is the snapshot, i the index of the
\* entry being recovered, branch the status it was found in, todo the
\* "remaining" subnets, det the snapshot objects that left the Map
IdleRetry ==
  [pc |-> "idle", pending |-> <<>>, i |-> 0, det |-> [j \in Jobs |-> NoEntry],
   tx |-> 0, todo |-> <<>>, calls |-> <<>>, branch |-> ""]

\* the invocation of handlePublishJob, or the iteration of retryPendingJobs,
\* that ended in the last step: how it ended, the calls it made, and for an
\* iteration the branch taken and the entry as it was recovered
\* A step that invokes mintPod leaves kind "mintPod" and the job and tweet it
\* mints for; removed says whether the run took the job's entry out of the WAL,
\* again the subnets it submitted although the platform held them already.
NoRun ==
  [kind |-> None, job |-> None, tweet |-> "", phase |-> 0, out |-> "", calls |-> <<>>,
   subnets |-> <<>>, completed |-> <<>>, failed |-> <<>>,
   deliverable |-> NoDeliverable, branch |-> "", entry |-> NoEntry,
   removed |-> FALSE, again |-> {}, late |-> FALSE]

\* the components exercised on their own are at rest
NoStore == [op |-> None]
NoParse == [op |-> None]
NoRetry == [state |-> None]
NoMint == [pc |-> None]

\* the process after its modules are loaded, before any call
Boot ==
  /\ cache = {}
  /\ mintedJobs = {}
  /\ processingLocks = {}
  /\ diskProcessed = <<>>
  /\ diskMinted = <<>>
  /\ jobs = <<>>
  /\ diskJobs = <<>>
  /\ pods = {}
  /\ clock = 0
  /\ env = [notified |-> 0, restarts |-> 0, faults |-> 0, paid |-> {}]
  /\ h = [p \in Procs |-> IdleProc]
  /\ r = [IdleRetry EXCEPT !.pc = "start"]
  /\ mintCalls = [t \in Tweets |-> 0]
  /\ mints = [t \in Tweets |-> 0]
  /\ deliveredOk = {}
  /\ last = NoRun
  /\ metadata = {}
  /\ refused = {}

Init ==
  /\ Boot
  /\ st = NoStore
  /\ px = NoParse
  /\ wr = NoRetry
  /\ mt = NoMint

\* ------------------------------------------------------------- helpers
\* a call made by a run: arg is the tweet or subnet it is about (for
\* getSubnets, how the catalog answered), tx and pod the transaction hash and
\* pod id it is given, ok whether it returned normally
CallPod(op, arg, tx, pod) ==
  [op |-> op, arg |-> arg, tx |-> tx, pod |-> pod, ok |-> TRUE]
Call(op, arg, tx) == CallPod(op, arg, tx, 0)

Ops(calls) == {calls[i].op : i \in 1..Len(calls)}

RECURSIVE SumOver(_, _)
SumOver(f, S) ==
  IF S = {} THEN 0
  ELSE LET x == CHOOSE y \in S : TRUE IN f[x] + SumOver(f, S \ {x})

\* the transaction hash the next mintPod call returns when it succeeds
NextTx == SumOver(mintCalls, Tweets) + 1

\* the pod id mintPod returns together with transaction hash tx
PodIdOf(tx) == tx + 100

\* getJobMint: the pod record of job j in the table, if any
PodOf(j) ==
  IF \E q \in pods : q.jobId = j THEN CHOOSE q \in pods : q.jobId = j
  ELSE [jobId |-> None, tx |-> 0]

\* the snapshot of a pass holds references to the objects of the Map, so it
\* sees later in-place updates until the Map entry is replaced or deleted;
\* from then on rr.det[j] keeps the object as it was left
Snap(rr, js, j) == IF rr.det[j] # NoEntry THEN rr.det[j] ELSE getPendingJob(js, j)

\* the pass after the Map entry of j was replaced or deleted by a handler
Detach(rr, j) ==
  IF /\ rr.pc \notin {"idle", "start"}
     /\ \E k \in 1..Len(rr.pending) : k >= rr.i /\ rr.pending[k] = j
     /\ rr.det[j] = NoEntry
     /\ IndexOf(jobs, j) # 0
  THEN [rr EXCEPT !.det[j] = getPendingJob(jobs, j)]
  ELSE rr

\* the record savePendingJob is given at checkpoints A and B
NewEntry(j, subnets) ==
  [jobId |-> j, postUrl |-> JobContent[j].postUrl, subnets |-> subnets,
   agentName |-> JobContent[j].agentName, status |-> "accepted",
   mintTxHash |-> 0, podId |-> 0, createdAt |-> clock, retryCount |-> 0,
   lastError |-> FALSE, completedSubnets |-> <<>>]

\* a failure that ends in recordPendingJobError is explored only while the
\* entry's retryCount is below the bound
MayFail(j) == getPendingJob(jobs, j).retryCount < MaxRetryCount

\* updatePendingJobStatus, removePendingJob and recordPendingJobError persist
\* the Map js only when they found the entry of j
PersistEntry(j, js, w) ==
  IF IndexOf(jobs, j) = 0 THEN diskJobs ELSE persistWithLock(js, diskJobs, w)

\* a step that writes to the data directory: the write succeeds (w), or it
\* fails (the file lock is not obtained, or writeFileSync throws) and the
\* failure is swallowed
Storage(w) ==
  /\ w \/ env.faults < MaxStorageFaults
  /\ env' = IF w THEN env ELSE [env EXCEPT !.faults = @ + 1]

\* mintPod is invoked for job j and tweet t
InvokeMint(j, t) ==
  /\ mintCalls[t] < MaxMints
  /\ mintCalls' = [mintCalls EXCEPT ![t] = @ + 1]
  /\ last' = [NoRun EXCEPT !.kind = "mintPod", !.job = j, !.tweet = t]

\* ------------------------------------------------------ handlePublishJob
\* a notification takes the first free slot; the slot PassSlot is not taken
\* while a retryPendingJobs pass is under way
Free(p) == h[p].pc = "idle"
Before(q, p) == q = "p1" /\ p = "p2"
PassSlot == "p2"

TweetOf(p) == extractTweetId(JobContent[h[p].job].postUrl)

HoldsLock(p) ==
  h[p].pc \in {"acquireProcessingLock", "accept", "createRequirement", "fetchTweet",
               "getJobMint", "mintPod", "markJobMinted", "markProcessed",
               "savePod", "deliver"}

\* a release handle that leaves the key in the map
ReleaseKeepsKey(t) == processingLocks

\* the release handle: processingLocks.delete(tweetId)
Release(t) == processingLocks \ {t}

\* lines 440-442: on the paths that release the lock and return inside the
\* try block (304-305, 311-312, 324-325) the finally block calls the release
\* handle once more, in the same turn of the event loop
ReleaseAgain(locks, t) == locks \ {t}

\* an acquisition that never finds the key taken
BusyNever(t) == FALSE

\* acquireProcessingLock: the key is in the map, so the caller gets null
Busy(t) == t \in processingLocks

\* the invocation in slot p goes on as me
Goes(p, me) ==
  /\ h' = [h EXCEPT ![p] = me]
  /\ last' = NoRun

\* the invocation in slot p returns
Returns(p, me, out, extra) ==
  /\ h' = [h EXCEPT ![p] = IdleProc]
  /\ last' = [kind |-> "handlePublishJob", job |-> me.job, phase |-> me.phase,
              out |-> out, calls |-> me.calls \o extra, subnets |-> me.subnets,
              completed |-> me.completed, failed |-> me.failed,
              deliverable |-> me.deliverable, branch |-> "", entry |-> NoEntry,
              tweet |-> "", removed |-> out = "delivered" /\ IndexOf(jobs, me.job) # 0,
              again |-> {}, late |-> me.late]

\* a catch block that rejects the job whatever the error was
CatchCallsReject(insufficient) ==
  <<Call("recordPendingJobError", "", 0), Call("reject", "", 0)>>

\* lines 429-439: what the catch block calls: recordPendingJobError, and
\* job.reject when the error message includes 'Insufficient REPPO'
CatchCalls(insufficient) ==
  <<Call("recordPendingJobError", "", 0)>>
    \o (IF insufficient THEN <<Call("reject", "", 0)>> ELSE <<>>)

\* lines 424-442: the catch block records the error on the entry, the finally
\* block releases the lock.  The errors that get here are those of
\* fetchTweet, getJobMint, mintPod (the inner catch has taken the
\* 'Insufficient REPPO' ones), savePod, getOrCreateBuyerAgent and job.deliver
Catch(p, w) ==
  /\ MayFail(h[p].job)
  /\ w \/ IndexOf(jobs, h[p].job) # 0
  /\ jobs' = RecordError(jobs, h[p].job)
  /\ diskJobs' = PersistEntry(h[p].job, jobs', w)
  /\ processingLocks' = Release(TweetOf(p))
  /\ Returns(p, h[p], "failed", CatchCalls(FALSE))

\* lines 116-151: a notification (job j at phase ph) enters the handler; the
\* minted-job skip and the required-field checks run before the first await
\* a validation that only looks at postUrl
RequiredFieldErrorUrlOnly(c) ==
  IF c.postUrl = NoUrl THEN "reject: Missing postUrl" ELSE ""

\* lines 131-141: the reason a payload is rejected for, "" when it has both
\* required fields
RequiredFieldError(c) ==
  IF c.postUrl = NoUrl THEN "reject: Missing postUrl"
  ELSE IF c.subnets = <<>> THEN "reject: Missing subnet"
  ELSE ""

\* line 215: typeof job.phase === 'number' ? job.phase : -1
PhaseOf(raw) == IF raw.isNumber THEN raw.n ELSE -1

HStart(p, j, raw) ==
  /\ Free(p)
  /\ \A q \in Procs : Free(q) => ~Before(q, p)
  /\ r.pc # "start"
  /\ p = PassSlot => r.pc = "idle"
  /\ env.notified < MaxNotifications
  /\ env' = [env EXCEPT !.notified = @ + 1,
                        !.paid = IF PhaseOf(raw) >= PHASE_TRANSACTION THEN @ \cup {j} ELSE @]
  /\ LET c == JobContent[j]
         me == [IdleProc EXCEPT !.job = j, !.phase = PhaseOf(raw), !.subnets = c.subnets,
                                !.late = extractTweetId(c.postUrl) \in cache]
     IN IF hasJobMinted(j) THEN Returns(p, me, "skip: job minted", <<>>)
        ELSE IF RequiredFieldError(c) # ""
        THEN Returns(p, me, RequiredFieldError(c), <<Call("reject", "", 0)>>)
        ELSE Goes(p, [me EXCEPT !.pc = "getSubnets"])
  /\ UNCHANGED <<dedupVars, processingLocks, walVars, pods, clock, r, histVars, metadata, auxVars, refused>>

\* lines 151-204: getSubnets answers (a list, an empty list, or it throws);
\* subnet names are resolved, then the dedup check and the lock acquisition
HGetSubnets(p, answer) ==
  /\ h[p].pc = "getSubnets"
  /\ LET me == [h[p] EXCEPT !.calls = <<Call("getSubnets", answer, 0)>>]
         t == TweetOf(p)
         resolved == ResolveIds(SubnetList, me.subnets)
         subnets == IF answer = "list" THEN Dedupe(resolved) ELSE me.subnets
     IN IF answer = "list" /\ "invalid" \in SeqToSet(resolved)
        THEN /\ Returns(p, me, "reject: Invalid subnet",
                        <<Call("reject", FirstInvalid(SubnetList, me.subnets), 0)>>)
             /\ UNCHANGED processingLocks
        ELSE IF hasProcessed(t)
        THEN /\ Returns(p, [me EXCEPT !.subnets = subnets], "reject: already processed",
                        <<Call("reject", "", 0)>>)
             /\ UNCHANGED processingLocks
        ELSE IF Busy(t)
        THEN /\ Returns(p, [me EXCEPT !.subnets = subnets], "busy",
                        <<Call("acquireProcessingLock", t, 0)>>)
             /\ UNCHANGED processingLocks
        ELSE /\ Goes(p, [me EXCEPT !.pc = "acquireProcessingLock", !.subnets = subnets,
                                   !.calls = @ \o <<Call("acquireProcessingLock", t, 0)>>])
             /\ processingLocks' = processingLocks \cup {t}
  /\ UNCHANGED <<dedupVars, walVars, pods, clock, env, r, histVars, metadata, auxVars, refused>>

\* checkpoint A (lines 238-256): the entry is written, then the payment
\* requirement is posted
CheckpointA(p, me, w) ==
  /\ r' = Detach(r, me.job)
  /\ jobs' = MapSet(jobs, NewEntry(me.job, me.subnets))
  /\ diskJobs' = persistWithLock(jobs', diskJobs, w)
  /\ Goes(p, [me EXCEPT !.pc = "createRequirement",
                !.calls = @ \o <<Call("savePendingJob", "", 0), Call("createRequirement", "", 0)>>])
  /\ UNCHANGED processingLocks

\* lines 206-291: with the lock held the dedup check is repeated; a job not
\* yet paid is accepted (phase 0) and checkpointed, a paid job is tracked in
\* the WAL if it is not yet (checkpoint B) and its tweet is fetched.  The
\* second getSubnets call only feeds the message text.
HAcquired(p, w) ==
  /\ h[p].pc = "acquireProcessingLock"
  /\ Storage(w)
  /\ LET me == h[p]
         j == me.job
         t == TweetOf(p)
         me2 == [me EXCEPT !.calls = @ \o <<Call("getSubnets", "", 0)>>]
     IN IF hasProcessed(t)
        THEN /\ w
             /\ processingLocks' = Release(t)
             /\ Returns(p, me, "reject: already processed", <<Call("reject", "", 0)>>)
             /\ UNCHANGED <<walVars, r>>
        ELSE IF me.phase = 0
        THEN /\ w
             /\ Goes(p, [me2 EXCEPT !.pc = "accept", !.calls = @ \o <<Call("accept", "", 0)>>])
             /\ UNCHANGED <<processingLocks, walVars, r>>
        ELSE IF me.phase <= 1
        THEN CheckpointA(p, me2, w)
        ELSE IF getPendingJob(jobs, j) = NoEntry
        THEN /\ jobs' = MapSet(jobs, NewEntry(j, me.subnets))
             /\ diskJobs' = persistWithLock(jobs', diskJobs, w)
             /\ Goes(p, [me EXCEPT !.pc = "fetchTweet",
                           !.calls = @ \o <<Call("savePendingJob", "", 0), Call("fetchTweet", t, 0)>>])
             /\ UNCHANGED <<processingLocks, r>>
        ELSE /\ w
             /\ Goes(p, [me EXCEPT !.pc = "fetchTweet", !.calls = @ \o <<Call("fetchTweet", t, 0)>>])
             /\ UNCHANGED <<processingLocks, walVars, r>>
  /\ UNCHANGED <<dedupVars, pods, clock, histVars, metadata, auxVars, refused>>

\* lines 233-262: job.accept returns or throws
HAccept(p, ok, w) ==
  /\ h[p].pc = "accept"
  /\ Storage(w)
  /\ IF ok
     THEN CheckpointA(p, h[p], w)
     ELSE /\ w
          /\ processingLocks' = Release(TweetOf(p))
          /\ Returns(p, h[p], "accept failed", <<>>)
          /\ UNCHANGED <<walVars, r>>
  /\ UNCHANGED <<dedupVars, pods, clock, histVars, metadata, auxVars, refused>>

\* lines 256-263: createRequirement returns or throws, the lock is released
HCreateRequirement(p) ==
  /\ h[p].pc = "createRequirement"
  /\ processingLocks' = Release(TweetOf(p))
  /\ Returns(p, h[p], "awaiting payment", <<>>)
  /\ UNCHANGED <<dedupVars, walVars, pods, clock, env, r, histVars, metadata, auxVars, refused>>

\* lines 291-307: fetchTweet returns or throws; the in-memory minted-job
\* check, then the pod-table lookup
HFetchTweet(p, ok, w) ==
  /\ h[p].pc = "fetchTweet"
  /\ Storage(w)
  /\ IF ~ok
     THEN Catch(p, w)
     ELSE /\ w
          /\ UNCHANGED walVars
          /\ IF hasJobMinted(h[p].job)
             THEN /\ processingLocks' = ReleaseAgain(Release(TweetOf(p)), TweetOf(p))
                  /\ Returns(p, h[p], "skip: job minted (memory)", <<>>)
             ELSE /\ Goes(p, [h[p] EXCEPT !.pc = "getJobMint",
                                         !.calls = @ \o <<Call("getJobMint", "", 0)>>])
                  /\ UNCHANGED processingLocks
  /\ UNCHANGED <<dedupVars, pods, clock, r, histVars, metadata, auxVars, refused>>

\* lines 307-319: getJobMint answers or throws; a recorded pod marks the job
\* minted and ends the run, otherwise mintPod is invoked
HGetJobMint(p, ok, w) ==
  /\ h[p].pc = "getJobMint"
  /\ Storage(w)
  /\ LET j == h[p].job
         t == TweetOf(p)
     IN IF ~ok
        THEN Catch(p, w) /\ UNCHANGED <<dedupVars, histVars>>
        ELSE IF PodOf(j).jobId = j
        THEN /\ mintedJobs' = Remember(mintedJobs, j)
             /\ diskMinted' = PersistMinted(diskMinted, j, w)
             /\ processingLocks' = ReleaseAgain(Release(t), t)
             /\ Returns(p, h[p], "skip: job minted (DynamoDB)", <<Call("markJobMinted", "", 0)>>)
             /\ UNCHANGED <<cache, diskProcessed, walVars, histVars>>
        ELSE /\ w
             /\ InvokeMint(j, t)
             /\ h' = [h EXCEPT ![p] = [@ EXCEPT !.pc = "mintPod", !.tx = NextTx,
                                                !.calls = @ \o <<Call("mintPod", "", 0)>>]]
             /\ UNCHANGED <<dedupVars, processingLocks, walVars, mints, deliveredOk>>
  /\ UNCHANGED <<pods, clock, r, metadata, auxVars, refused>>

\* lines 315-337: mintPod returns, reports insufficient REPPO, or throws
HMintPod(p, res, w) ==
  /\ h[p].pc = "mintPod"
  /\ Storage(w)
  /\ LET j == h[p].job
     IN CASE res = "ok" ->
               /\ mints' = [mints EXCEPT ![TweetOf(p)] = @ + 1]
               /\ mintedJobs' = Remember(mintedJobs, j)
               /\ diskMinted' = PersistMinted(diskMinted, j, w)
               /\ Goes(p, [h[p] EXCEPT !.pc = "markJobMinted",
                                      !.calls = @ \o <<Call("markJobMinted", "", 0)>>])
               /\ UNCHANGED <<cache, diskProcessed, processingLocks, walVars, refused>>
          [] res = "insufficient" ->
               /\ w
               /\ refused' = refused \cup {j}
               /\ processingLocks' = ReleaseAgain(Release(TweetOf(p)), TweetOf(p))
               /\ Returns(p, h[p], "reject: insufficient REPPO", <<Call("reject", "", 0)>>)
               /\ UNCHANGED <<dedupVars, walVars, mints>>
          [] OTHER ->
               Catch(p, w) /\ UNCHANGED <<dedupVars, mints, refused>>
  /\ UNCHANGED <<pods, clock, r, mintCalls, deliveredOk, metadata, auxVars>>

\* line 337: markJobMinted has returned, markProcessed follows
HMarkJobMinted(p, w) ==
  /\ h[p].pc = "markJobMinted"
  /\ Storage(w)
  /\ cache' = Remember(cache, TweetOf(p))
  /\ diskProcessed' = PersistProcessed(diskProcessed, TweetOf(p), w)
  /\ Goes(p, [h[p] EXCEPT !.pc = "markProcessed", !.calls = @ \o <<Call("markProcessed", "", 0)>>])
  /\ UNCHANGED <<mintedJobs, diskMinted, processingLocks, walVars, pods, clock, r, histVars, metadata, auxVars, refused>>

\* lines 339-354: checkpoint C, then savePod is invoked
HMarkProcessed(p, w) ==
  /\ h[p].pc = "markProcessed"
  /\ Storage(w)
  /\ w \/ IndexOf(jobs, h[p].job) # 0
  /\ jobs' = UpdateStatus(jobs, h[p].job, "minted", h[p].tx, PodIdOf(h[p].tx))
  /\ diskJobs' = PersistEntry(h[p].job, jobs', w)
  /\ Goes(p, [h[p] EXCEPT !.pc = "savePod",
                !.calls = @ \o <<Call("updatePendingJobStatus", "", h[p].tx),
                                 CallPod("savePod", "", h[p].tx, PodIdOf(h[p].tx))>>])
  /\ UNCHANGED <<dedupVars, processingLocks, pods, clock, r, histVars, metadata, auxVars, refused>>

\* a selection that keeps every element
KeepAll(seq, S) == seq

\* the elements of seq at the indices in S, in order
RECURSIVE Keep(_, _)
Keep(seq, S) ==
  IF seq = <<>> THEN <<>>
  ELSE Keep(SubSeq(seq, 1, Len(seq) - 1), S)
         \o (IF Len(seq) \in S THEN <<seq[Len(seq)]>> ELSE <<>>)

\* one submitPodMetadata call per subnet, in order, all with the same hash
\* and pod id; the calls whose index is in F throw
PublishCalls(subnets, tx, pod, F) ==
  [i \in 1..Len(subnets) |->
     [CallPod("submitPodMetadata", subnets[i], tx, pod) EXCEPT !.ok = i \notin F]]

\* what the platform holds once the calls for these subnets of job j returned
Published(j, subnets) == {[job |-> j, subnet |-> s] : s \in SeqToSet(subnets)}

\* lines 345-418: savePod returns or throws; the buyer profile is looked up
\* when the job names an agent; every subnet is submitted, the calls whose
\* index is in F throw and land in failedSubnets; the deliverable is built and
\* job.deliver is invoked.  None of these calls touches the engine's state, so
\* the loop is taken in one step.
HSavePod(p, ok, buyerOk, F, w) ==
  /\ h[p].pc = "savePod"
  /\ Storage(w)
  /\ LET me == h[p]
         agent == JobContent[me.job].agentName
         n == Len(me.subnets)
         completed == Keep(me.subnets, (1..n) \ F)
         failed == Keep(me.subnets, F)
         buyerCall == IF agent THEN <<Call("getOrCreateBuyerAgent", "", 0)>> ELSE <<>>
     IN IF ~ok
        THEN /\ buyerOk /\ F = {}
             /\ Catch(p, w)
             /\ UNCHANGED <<pods, metadata>>
        ELSE /\ pods' = {q \in pods : q.jobId # me.job} \cup {[jobId |-> me.job, tx |-> me.tx]}
             /\ IF agent /\ ~buyerOk
                THEN /\ F = {}
                     /\ Catch(p, w)
                     /\ UNCHANGED metadata
                ELSE /\ buyerOk /\ w
                     /\ F \subseteq 1..n
                     /\ metadata' = metadata \cup Published(me.job, completed)
                     /\ Goes(p, [me EXCEPT !.pc = "deliver",
                                   !.completed = completed, !.failed = failed,
                                   !.calls = @ \o buyerCall \o PublishCalls(me.subnets, me.tx, PodIdOf(me.tx), F)
                                               \o <<Call("deliver", "", me.tx)>>,
                                   !.deliverable = [subnets |-> completed, txHash |-> me.tx,
                                                    podId |-> PodIdOf(me.tx),
                                                    failedSubnets |-> failed,
                                                    hasFailedSubnets |-> Len(failed) > 0]])
                     /\ UNCHANGED <<processingLocks, walVars>>
  /\ UNCHANGED <<dedupVars, clock, r, histVars, auxVars, refused>>

\* lines 418-422 and 440-442: job.deliver returns or throws; after a
\* delivery the entry is removed from the WAL and the lock is released
HDeliver(p, ok, w) ==
  /\ h[p].pc = "deliver"
  /\ Storage(w)
  /\ LET j == h[p].job
     IN IF ~ok
        THEN Catch(p, w) /\ UNCHANGED <<r, histVars>>
        ELSE /\ deliveredOk' = deliveredOk \cup {j}
             /\ r' = Detach(r, j)
             /\ jobs' = MapDelete(jobs, j)
             /\ w \/ IndexOf(jobs, j) # 0
             /\ diskJobs' = PersistEntry(j, jobs', w)
             /\ processingLocks' = Release(TweetOf(p))
             /\ Returns(p, h[p], "delivered", <<Call("removePendingJob", "", 0)>>)
             /\ UNCHANGED <<mintCalls, mints>>
  /\ UNCHANGED <<dedupVars, pods, clock, metadata, auxVars, refused>>

\* ------------------------------------------------------ retryPendingJobs
\* Date.now() - createdAt of an entry
Age(pj) == (clock - pj.createdAt) * TickMs

\* an expiry test that gives up every entry
ExpiredAlways(age) == TRUE

\* line 471: age > ACCEPTED_MAX_AGE_MS
Expired(age) == age > ACCEPTED_MAX_AGE_MS

\* a filter that leaves no subnet to submit
RemainingNone(pj) == <<>>

\* lines 528-529 and 578-579: the subnets not yet in completedSubnets
Remaining(pj) ==
  SelectSeq(pj.subnets, LAMBDA s : s \notin SeqToSet(pj.completedSubnets))

\* lines 466-494 and 551-562: entry k of the snapshot is taken up, as far as
\* the first call the iteration awaits
BeginIter(rr, k) ==
  LET j == rr.pending[k]
      pj == Snap(rr, jobs, j)
      t == extractTweetId(pj.postUrl)
      base == [rr EXCEPT !.i = k, !.calls = <<>>, !.tx = 0, !.todo = <<>>]
  IN IF pj.status = "accepted"
     THEN IF Expired(Age(pj))
          THEN [base EXCEPT !.pc = "rejectJobById", !.branch = "expired"]
          ELSE IF hasProcessed(t)
          THEN [base EXCEPT !.pc = "rejectJobById", !.branch = "processed"]
          ELSE [base EXCEPT !.pc = "fetchTweet", !.branch = "accepted",
                            !.calls = <<Call("fetchTweet", t, 0)>>]
     ELSE IF pj.status = "minted"
     THEN [base EXCEPT !.pc = "savePod", !.branch = "minted",
                       !.calls = <<CallPod("savePod", "", pj.mintTxHash, pj.podId)>>]
     ELSE [base EXCEPT !.pc = "next", !.i = k + 1]

\* the entry the pass is working on
Current == Snap(r, jobs, r.pending[r.i])

\* the iteration ends: the pass moves to the next entry of the snapshot
EndIter(out, extra, completed, failed) ==
  LET j == r.pending[r.i]
  IN /\ r' = [r EXCEPT !.pc = "next", !.i = @ + 1, !.calls = <<>>, !.tx = 0,
                       !.todo = <<>>, !.branch = "", !.det[j] = NoEntry]
     /\ last' = [kind |-> "retryPendingJobs", job |-> j, phase |-> 0, out |-> out,
                 calls |-> r.calls \o extra, subnets |-> Current.subnets,
                 completed |-> completed, failed |-> failed,
                 deliverable |-> NoDeliverable, branch |-> r.branch, entry |-> Current,
                 tweet |-> "", late |-> FALSE,
                 again |-> {extra[i].arg : i \in {k \in 1..Len(extra) :
                              /\ extra[k].op = "submitPodMetadata"
                              /\ [job |-> j, subnet |-> extra[k].arg] \in metadata}},
                 removed |-> out \in {"expired", "processed", "removed"} /\ IndexOf(jobs, j) # 0]

\* removePendingJob(pj.jobId) by the pass
RemoveEntry(j, w) ==
  /\ w \/ IndexOf(jobs, j) # 0
  /\ jobs' = MapDelete(jobs, j)
  /\ diskJobs' = PersistEntry(j, jobs', w)

\* lines 602-606: the catch block of an iteration
RCatch(w) ==
  LET j == r.pending[r.i]
  IN /\ MayFail(j)
     /\ w \/ IndexOf(jobs, j) # 0
     /\ jobs' = RecordError(jobs, j)
     /\ diskJobs' = PersistEntry(j, jobs', w)
     /\ EndIter("failed", <<Call("recordPendingJobError", "", 0)>>, <<>>, <<>>)

\* lines 458-466: the pass starts: it snapshots the WAL and takes up the first entry
RStart ==
  /\ r.pc = "start"
  /\ Free(PassSlot)
  /\ LET pending == getPendingJobs(jobs)
     IN r' = IF pending = <<>> THEN IdleRetry
             ELSE BeginIter([IdleRetry EXCEPT !.pending = pending], 1)
  /\ last' = NoRun
  /\ UNCHANGED <<dedupVars, processingLocks, walVars, pods, clock, env, h, histVars, metadata, auxVars, refused>>

\* the for loop goes on to the next entry, or the pass returns
RNext ==
  /\ r.pc = "next"
  /\ r' = IF r.i > Len(r.pending) THEN IdleRetry ELSE BeginIter(r, r.i)
  /\ last' = NoRun
  /\ UNCHANGED <<dedupVars, processingLocks, walVars, pods, clock, env, h, histVars, metadata, auxVars, refused>>

\* lines 23-37, 474-477 and 485-490: rejectJobById returns true (the job was
\* rejected) or false (the lookup or job.reject failed; it never throws), and
\* the entry of the expired or already processed job is removed.  The pass is
\* given an ACP context.
RRejected(ok, w) ==
  /\ r.pc = "rejectJobById"
  /\ Storage(w)
  /\ RemoveEntry(r.pending[r.i], w)
  /\ EndIter(r.branch,
             <<[Call("rejectJobById", "", 0) EXCEPT !.ok = ok], Call("removePendingJob", "", 0)>>,
             <<>>, <<>>)
  /\ UNCHANGED <<dedupVars, processingLocks, pods, clock, h, histVars, metadata, auxVars, refused>>

\* lines 494-497 and 566-580: fetchTweet returns or throws.  A recovered
\* 'accepted' entry goes on to mintPod; a 'minted' one looks up the buyer
\* profile and enters the metadata loop over the remaining subnets
RFetchTweet(ok, buyerOk, w) ==
  /\ r.pc = "fetchTweet"
  /\ Storage(w)
  /\ LET j == r.pending[r.i]
         t == extractTweetId(Current.postUrl)
     IN IF ~ok
        THEN buyerOk /\ RCatch(w) /\ UNCHANGED mintCalls
        ELSE IF r.branch = "accepted"
        THEN /\ buyerOk /\ w
             /\ InvokeMint(j, t)
             /\ r' = [r EXCEPT !.pc = "mintPod", !.tx = NextTx,
                               !.calls = @ \o <<Call("mintPod", "", 0)>>]
             /\ UNCHANGED walVars
        ELSE IF Current.agentName /\ ~buyerOk
        THEN RCatch(w) /\ UNCHANGED mintCalls
        ELSE /\ buyerOk /\ w
             /\ r' = [r EXCEPT !.pc = "submitPodMetadata", !.todo = Remaining(Current)]
             /\ last' = NoRun
             /\ UNCHANGED <<walVars, mintCalls>>
  /\ UNCHANGED <<dedupVars, processingLocks, pods, clock, h, mints, deliveredOk, metadata, auxVars, refused>>

\* lines 497-498: mintPod returns or throws
RMintPod(ok, w) ==
  /\ r.pc = "mintPod"
  /\ Storage(w)
  /\ IF ok
     THEN /\ mints' = [mints EXCEPT ![extractTweetId(Current.postUrl)] = @ + 1]
          /\ mintedJobs' = Remember(mintedJobs, r.pending[r.i])
          /\ diskMinted' = PersistMinted(diskMinted, r.pending[r.i], w)
          /\ r' = [r EXCEPT !.pc = "markJobMinted", !.calls = @ \o <<Call("markJobMinted", "", 0)>>]
          /\ last' = NoRun
          /\ UNCHANGED walVars
     ELSE RCatch(w) /\ UNCHANGED <<mintedJobs, diskMinted, mints>>
  /\ UNCHANGED <<cache, diskProcessed, processingLocks, pods, clock, h, mintCalls, deliveredOk, metadata, auxVars, refused>>

\* line 499: markJobMinted has returned, markProcessed follows
RMarkJobMinted(w) ==
  /\ r.pc = "markJobMinted"
  /\ Storage(w)
  /\ LET t == extractTweetId(Current.postUrl)
     IN /\ cache' = Remember(cache, t)
        /\ diskProcessed' = PersistProcessed(diskProcessed, t, w)
  /\ r' = [r EXCEPT !.pc = "markProcessed", !.calls = @ \o <<Call("markProcessed", "", 0)>>]
  /\ last' = NoRun
  /\ UNCHANGED <<mintedJobs, diskMinted, processingLocks, walVars, pods, clock, h, histVars, metadata, auxVars, refused>>

\* lines 501-516: the entry is set to 'minted', then savePod is invoked
RMarkProcessed(w) ==
  /\ r.pc = "markProcessed"
  /\ Storage(w)
  /\ w \/ IndexOf(jobs, r.pending[r.i]) # 0
  /\ jobs' = UpdateStatus(jobs, r.pending[r.i], "minted", r.tx, PodIdOf(r.tx))
  /\ diskJobs' = PersistEntry(r.pending[r.i], jobs', w)
  /\ r' = [r EXCEPT !.pc = "savePod",
                    !.calls = @ \o <<Call("updatePendingJobStatus", "", r.tx),
                                     CallPod("savePod", "", r.tx, PodIdOf(r.tx))>>]
  /\ last' = NoRun
  /\ UNCHANGED <<dedupVars, processingLocks, pods, clock, h, histVars, metadata, auxVars, refused>>

\* lines 509-529 and 555-566: savePod returns or throws.  After a mint the
\* buyer profile is looked up and the metadata loop is entered; a recovered
\* 'minted' entry goes on to fetchTweet
RSavePod(ok, buyerOk, w) ==
  /\ r.pc = "savePod"
  /\ Storage(w)
  /\ LET j == r.pending[r.i]
         tx == IF r.branch = "minted" THEN Current.mintTxHash ELSE r.tx
     IN IF ~ok
        THEN buyerOk /\ RCatch(w) /\ UNCHANGED pods
        ELSE /\ pods' = {q \in pods : q.jobId # j} \cup {[jobId |-> j, tx |-> tx]}
             /\ IF r.branch = "minted"
                THEN /\ buyerOk /\ w
                     /\ r' = [r EXCEPT !.pc = "fetchTweet",
                                !.calls = @ \o <<Call("fetchTweet", extractTweetId(Current.postUrl), 0)>>]
                     /\ last' = NoRun
                     /\ UNCHANGED walVars
                ELSE IF Current.agentName /\ ~buyerOk
                THEN RCatch(w)
                ELSE /\ buyerOk /\ w
                     /\ r' = [r EXCEPT !.pc = "submitPodMetadata", !.todo = Remaining(Current)]
                     /\ last' = NoRun
                     /\ UNCHANGED walVars
  /\ UNCHANGED <<dedupVars, processingLocks, clock, h, histVars, metadata, auxVars, refused>>

\* lines 530-549 and 580-600: every remaining subnet is submitted with the
\* transaction hash and pod id of the mint (the calls whose index is in F throw
\* and are only logged), then the entry is removed
RSubmitPodMetadata(F, w) ==
  /\ r.pc = "submitPodMetadata"
  /\ Storage(w)
  /\ F \subseteq 1..Len(r.todo)
  /\ LET j == r.pending[r.i]
         tx == IF r.branch = "minted" THEN Current.mintTxHash ELSE r.tx
         pod == IF r.branch = "minted" THEN Current.podId ELSE PodIdOf(r.tx)
     IN /\ RemoveEntry(j, w)
        /\ metadata' = metadata \cup Published(j, Keep(r.todo, (1..Len(r.todo)) \ F))
        /\ EndIter("removed", PublishCalls(r.todo, tx, pod, F) \o <<Call("removePendingJob", "", 0)>>,
                   Keep(r.todo, (1..Len(r.todo)) \ F), Keep(r.todo, F))
  /\ UNCHANGED <<dedupVars, processingLocks, pods, clock, h, histVars, auxVars, refused>>

\* ------------------------------------------------------------ environment
\* the process dies and is started again: memory is rebuilt from the files,
\* every invocation in flight is gone, and the recovery pass is due
Restart ==
  /\ env.restarts < MaxRestarts
  /\ env' = [env EXCEPT !.restarts = @ + 1]
  /\ cache' = SeqToSet(diskProcessed)
  /\ mintedJobs' = SeqToSet(diskMinted)
  /\ jobs' = initPendingJobs(diskJobs)
  /\ processingLocks' = {}
  /\ h' = [p \in Procs |-> IdleProc]
  /\ r' = [IdleRetry EXCEPT !.pc = "start"]
  /\ last' = NoRun
  /\ UNCHANGED <<diskProcessed, diskMinted, diskJobs, pods, clock, histVars, metadata, auxVars, refused>>

\* more than ACCEPTED_MAX_AGE_MS goes by while the process is down
Tick ==
  /\ r.pc = "start"
  /\ jobs # <<>>
  /\ clock < MaxClock
  /\ clock' = clock + 1
  /\ last' = NoRun
  /\ UNCHANGED <<dedupVars, processingLocks, walVars, pods, env, h, r, histVars, metadata, auxVars, refused>>

Bool == {TRUE, FALSE}
Outcomes == {"ok", "insufficient", "throw"}
Answers == {"list", "empty", "throw"}
Subsets == SUBSET (1..2)

HStartAny == \E p \in Procs, j \in Jobs, raw \in RawPhases : HStart(p, j, raw)
HGetSubnetsAny == \E p \in Procs, a \in Answers : HGetSubnets(p, a)
HAcquiredAny == \E p \in Procs, w \in Bool : HAcquired(p, w)
HAcceptAny == \E p \in Procs, ok \in Bool, w \in Bool : HAccept(p, ok, w)
HCreateRequirementAny == \E p \in Procs : HCreateRequirement(p)
HFetchTweetAny == \E p \in Procs, ok \in Bool, w \in Bool : HFetchTweet(p, ok, w)
HGetJobMintAny == \E p \in Procs, ok \in Bool, w \in Bool : HGetJobMint(p, ok, w)
HMintPodAny == \E p \in Procs, res \in Outcomes, w \in Bool : HMintPod(p, res, w)
HMarkJobMintedAny == \E p \in Procs, w \in Bool : HMarkJobMinted(p, w)
HMarkProcessedAny == \E p \in Procs, w \in Bool : HMarkProcessed(p, w)
HSavePodAny == \E p \in Procs, ok \in Bool, b \in Bool, F \in Subsets, w \in Bool : HSavePod(p, ok, b, F, w)
HDeliverAny == \E p \in Procs, ok \in Bool, w \in Bool : HDeliver(p, ok, w)
RRejectedAny == \E ok \in Bool, w \in Bool : RRejected(ok, w)
RFetchTweetAny == \E ok \in Bool, b \in Bool, w \in Bool : RFetchTweet(ok, b, w)
RMintPodAny == \E ok \in Bool, w \in Bool : RMintPod(ok, w)
RMarkJobMintedAny == \E w \in Bool : RMarkJobMinted(w)
RMarkProcessedAny == \E w \in Bool : RMarkProcessed(w)
RSavePodAny == \E ok \in Bool, b \in Bool, w \in Bool : RSavePod(ok, b, w)
RSubmitPodMetadataAny == \E F \in Subsets, w \in Bool : RSubmitPodMetadata(F, w)

Next ==
  \/ HStartAny \/ HGetSubnetsAny \/ HAcquiredAny \/ HAcceptAny
  \/ HCreateRequirementAny \/ HFetchTweetAny \/ HGetJobMintAny \/ HMintPodAny
  \/ HMarkJobMintedAny \/ HMarkProcessedAny \/ HSavePodAny \/ HDeliverAny
  \/ RStart \/ RNext \/ RRejectedAny \/ RFetchTweetAny \/ RMintPodAny
  \/ RMarkJobMintedAny \/ RMarkProcessedAny \/ RSavePodAny \/ RSubmitPodMetadataAny
  \/ Restart \/ Tick

Spec == Init /\ [][Next]_vars

\* ============================================== the stores on their own
\* The dedup store (dedup.ts) and the WAL (pending-jobs.ts) called directly,
\* in any order, with any persistence outcome.
StoreKeys == {"t1", "t2"}
StoreJobs == {"j1", "j2"}
MaxStoreCalls == 4

\* st at rest: op, arg and ok describe the last call (ok: its file write
\* succeeded), ret how it ended, found whether a WAL call found its entry,
\* got what acquireProcessingLock returned and unreleased how many
\* acquisitions of the key were unreleased when it was called; held counts the
\* unreleased acquisitions per key, durableT / durableJ the ids whose
\* markProcessed / markJobMinted ended with a successful write
StoreIdle ==
  [op |-> None, arg |-> None, ok |-> TRUE, ret |-> "", found |-> FALSE, got |-> "",
   unreleased |-> 0, calls |-> 0, held |-> [k \in StoreKeys |-> 0],
   durableT |-> {}, durableJ |-> {}]

\* a persistence step whose failure reaches the caller
PersistOutcomeThrows(ok) == IF ok THEN "returned" ELSE "thrown"

\* dedup.ts 92-97, 153-157 and pending-jobs.ts 50-55: a failure to lock or to
\* write the file is caught and logged, the call returns normally
PersistOutcome(ok) == "returned"

\* the record of a call of the store
StoreCall(op, arg, ok, found) ==
  [st EXCEPT !.op = op, !.arg = arg, !.ok = ok, !.ret = PersistOutcome(ok),
             !.found = found, !.got = "", !.unreleased = 0, !.calls = @ + 1]

StoreInit ==
  /\ Boot
  /\ st = StoreIdle
  /\ px = NoParse
  /\ wr = NoRetry
  /\ mt = NoMint

\* the variables the stores do not touch
storeRest == <<pods, clock, env, h, r, mintCalls, mints, deliveredOk, last, refused, metadata, px, wr, mt>>

\* markProcessed(t)
SMarkProcessed(t, w) ==
  /\ st.calls < MaxStoreCalls
  /\ cache' = Remember(cache, t)
  /\ diskProcessed' = PersistProcessed(diskProcessed, t, w)
  /\ st' = [StoreCall("markProcessed", t, w, FALSE) EXCEPT
              !.durableT = IF w THEN @ \cup {t} ELSE @]
  /\ UNCHANGED <<mintedJobs, diskMinted, processingLocks, walVars, storeRest>>

\* markJobMinted(j)
SMarkJobMinted(j, w) ==
  /\ st.calls < MaxStoreCalls
  /\ mintedJobs' = Remember(mintedJobs, j)
  /\ diskMinted' = PersistMinted(diskMinted, j, w)
  /\ st' = [StoreCall("markJobMinted", j, w, FALSE) EXCEPT
              !.durableJ = IF w THEN @ \cup {j} ELSE @]
  /\ UNCHANGED <<cache, diskProcessed, processingLocks, walVars, storeRest>>

\* acquireProcessingLock(k): null when the key is in the map, otherwise the
\* key is set and a release handle returned
SAcquire(k) ==
  /\ st.calls < MaxStoreCalls
  /\ processingLocks' = IF Busy(k) THEN processingLocks ELSE processingLocks \cup {k}
  /\ st' = [StoreCall("acquireProcessingLock", k, TRUE, FALSE) EXCEPT
              !.got = IF Busy(k) THEN "null" ELSE "handle",
              !.unreleased = st.held[k],
              !.held[k] = IF Busy(k) THEN @ ELSE @ + 1]
  /\ UNCHANGED <<dedupVars, walVars, storeRest>>

\* the holder of an unreleased acquisition of k calls its release handle
SRelease(k) ==
  /\ st.calls < MaxStoreCalls
  /\ st.held[k] > 0
  /\ processingLocks' = Release(k)
  /\ st' = [StoreCall("release", k, TRUE, FALSE) EXCEPT !.held[k] = @ - 1]
  /\ UNCHANGED <<dedupVars, walVars, storeRest>>

\* savePendingJob(entry of j)
SSavePendingJob(j, w) ==
  /\ st.calls < MaxStoreCalls
  /\ jobs' = MapSet(jobs, NewEntry(j, JobContent[j].subnets))
  /\ diskJobs' = persistWithLock(jobs', diskJobs, w)
  /\ st' = StoreCall("savePendingJob", j, w, IndexOf(jobs, j) # 0)
  /\ UNCHANGED <<dedupVars, processingLocks, storeRest>>

\* updatePendingJobStatus(j, 'minted', {mintTxHash, podId})
SUpdatePendingJobStatus(j, w) ==
  /\ st.calls < MaxStoreCalls
  /\ w \/ IndexOf(jobs, j) # 0
  /\ jobs' = UpdateStatus(jobs, j, "minted", 1, PodIdOf(1))
  /\ diskJobs' = PersistEntry(j, jobs', w)
  /\ st' = StoreCall("updatePendingJobStatus", j, w, IndexOf(jobs, j) # 0)
  /\ UNCHANGED <<dedupVars, processingLocks, storeRest>>

\* removePendingJob(j)
SRemovePendingJob(j, w) ==
  /\ st.calls < MaxStoreCalls
  /\ w \/ IndexOf(jobs, j) # 0
  /\ jobs' = MapDelete(jobs, j)
  /\ diskJobs' = PersistEntry(j, jobs', w)
  /\ st' = StoreCall("removePendingJob", j, w, IndexOf(jobs, j) # 0)
  /\ UNCHANGED <<dedupVars, processingLocks, storeRest>>

\* recordPendingJobError(j, msg)
SRecordPendingJobError(j, w) ==
  /\ st.calls < MaxStoreCalls
  /\ MayFail(j)
  /\ w \/ IndexOf(jobs, j) # 0
  /\ jobs' = RecordError(jobs, j)
  /\ diskJobs' = PersistEntry(j, jobs', w)
  /\ st' = StoreCall("recordPendingJobError", j, w, IndexOf(jobs, j) # 0)
  /\ UNCHANGED <<dedupVars, processingLocks, storeRest>>

\* the process is started again: initDedup and initPendingJobs rebuild the
\* memory from the files, the lock map is empty
SRestart ==
  /\ st.calls < MaxStoreCalls
  /\ st.calls > 0
  /\ cache' = SeqToSet(diskProcessed)
  /\ mintedJobs' = SeqToSet(diskMinted)
  /\ jobs' = initPendingJobs(diskJobs)
  /\ processingLocks' = {}
  /\ st' = [StoreCall("initDedup", None, TRUE, FALSE) EXCEPT
              !.held = [k \in StoreKeys |-> 0]]
  /\ UNCHANGED <<diskProcessed, diskMinted, diskJobs, storeRest>>

StoreNext ==
  \/ \E t \in StoreKeys, w \in Bool : SMarkProcessed(t, w)
  \/ \E j \in StoreJobs, w \in Bool : SMarkJobMinted(j, w)
  \/ \E k \in StoreKeys : SAcquire(k)
  \/ \E k \in StoreKeys : SRelease(k)
  \/ \E j \in StoreJobs, w \in Bool : SSavePendingJob(j, w)
  \/ \E j \in StoreJobs, w \in Bool : SUpdatePendingJobStatus(j, w)
  \/ \E j \in StoreJobs, w \in Bool : SRemovePendingJob(j, w)
  \/ \E j \in StoreJobs, w \in Bool : SRecordPendingJobError(j, w)
  \/ SRestart

SpecStore == StoreInit /\ [][StoreNext]_vars

\* ================================================= the trim of the dedup file
\* markProcessed on a dedup file that is one entry short of MAX_ENTRIES.
\* Tweet ids are numbers here; the file holds 1 .. MAX_ENTRIES - 1.
MaxTrimCalls == 3
Preloaded == [i \in 1..(MAX_ENTRIES - 1) |-> i]
TrimIds == {1, MAX_ENTRIES, MAX_ENTRIES + 1, MAX_ENTRIES + 2}

\* getProcessedCount
getProcessedCount == Cardinality(cache)

\* log lists every id pushed to the file's list, in the order of the pushes
TrimIdle == [op |-> None, arg |-> 0, ok |-> TRUE, calls |-> 0, log |-> Preloaded]

\* the process after initDedup has loaded the file
TrimInit ==
  /\ cache = SeqToSet(Preloaded)
  /\ diskProcessed = Preloaded
  /\ mintedJobs = {} /\ diskMinted = <<>> /\ processingLocks = {}
  /\ jobs = <<>> /\ diskJobs = <<>> /\ pods = {} /\ clock = 0
  /\ env = [notified |-> 0, restarts |-> 0, faults |-> 0, paid |-> {}]
  /\ h = [p \in Procs |-> IdleProc]
  /\ r = [IdleRetry EXCEPT !.pc = "start"]
  /\ mintCalls = [t \in Tweets |-> 0]
  /\ mints = [t \in Tweets |-> 0]
  /\ deliveredOk = {} /\ last = NoRun /\ metadata = {} /\ refused = {}
  /\ st = TrimIdle
  /\ px = NoParse
  /\ wr = NoRetry
  /\ mt = NoMint

trimRest == <<mintedJobs, diskMinted, processingLocks, walVars, storeRest>>

\* markProcessed(t)
TMarkProcessed(t, w) ==
  /\ st.calls < MaxTrimCalls
  /\ cache' = Remember(cache, t)
  /\ diskProcessed' = PersistProcessed(diskProcessed, t, w)
  /\ st' = [st EXCEPT !.op = "markProcessed", !.arg = t, !.ok = w, !.calls = @ + 1,
                      !.log = IF diskProcessed' # diskProcessed THEN Append(@, t) ELSE @]
  /\ UNCHANGED trimRest

\* the process is started again and initDedup loads the file
TRestart ==
  /\ st.calls < MaxTrimCalls
  /\ st.calls > 0
  /\ cache' = SeqToSet(diskProcessed)
  /\ st' = [st EXCEPT !.op = "initDedup", !.arg = 0, !.ok = TRUE, !.calls = @ + 1]
  /\ UNCHANGED <<diskProcessed, trimRest>>

TrimNext ==
  \/ \E t \in TrimIds, w \in Bool : TMarkProcessed(t, w)
  \/ TRestart

SpecTrim == TrimInit /\ [][TrimNext]_vars

\* ------------------------------------------- parseJobContent on its own
\* Strings whose characters matter (subnet, the elements of subnets) are
\* sequences of characters; strings that are only tested for truthiness and
\* copied (postUrl, agentName, ...) are atoms, "" when absent or empty.
MaxMemos == 2

\* String.prototype.trim restricted to the space character
RECURSIVE trimStart(_)
trimStart(s) == IF s = <<>> \/ s[1] # " " THEN s ELSE trimStart(Tail(s))

RECURSIVE trimEnd(_)
trimEnd(s) ==
  IF s = <<>> \/ s[Len(s)] # " " THEN s ELSE trimEnd(SubSeq(s, 1, Len(s) - 1))

trim(s) == trimEnd(trimStart(s))

\* s.split(','): the pieces between the commas, "" pieces included
RECURSIVE split(_)
split(s) ==
  LET commas == {i \in 1..Len(s) : s[i] = ","}
  IN IF commas = {} THEN <<s>>
     ELSE LET i == CHOOSE k \in commas : \A m \in commas : k <= m
          IN <<SubSeq(s, 1, i - 1)>> \o split(SubSeq(s, i + 1, Len(s)))

\* list.map(s => s.trim()).filter(Boolean)
TrimAll(list) == SelectSeq([i \in 1..Len(list) |-> trim(list[i])], LAMBDA x : x # <<>>)

\* a value of type string[] | undefined
Undefined == [def |-> FALSE, val |-> <<>>]
Defined(list) == [def |-> TRUE, val |-> list]

\* normalizeSubnets(source).  source.isArray is Array.isArray(source.subnets);
\* source.subnet is <<>> when the field is absent, not a string, or ""
normalizeSubnets(source) ==
  IF source.isArray THEN Defined(TrimAll(source.subnets))
  ELSE IF trim(source.subnet) # <<>> THEN Defined(TrimAll(split(source.subnet)))
  ELSE Undefined

\* an object without any of the fields
NoFields ==
  [postUrl |-> "", isArray |-> FALSE, subnets |-> <<>>, subnet |-> <<>>,
   agentName |-> "", agentDescription |-> "", podName |-> "", podDescription |-> ""]

\* the objects the memos are built from
ObjA == [NoFields EXCEPT !.postUrl = "u1", !.isArray = TRUE, !.subnets = << <<" ", "a">> >>,
                         !.agentName = "n1", !.podName = "p1"]
ObjB == [NoFields EXCEPT !.postUrl = "u2", !.subnet = <<"b", ",", " ", "a">>,
                         !.agentName = "n2", !.agentDescription = "d2", !.podDescription = "q2"]
ObjEmptyArray == [NoFields EXCEPT !.isArray = TRUE]
ObjBlankElement == [NoFields EXCEPT !.isArray = TRUE, !.subnets = << <<" ">> >>]
ObjBlankString == [NoFields EXCEPT !.subnet = <<" ">>]
ObjOnlyComma == [NoFields EXCEPT !.subnet = <<",">>]

\* a memo: json is whether memo.content is an object or parses as JSON;
\* wrapped is whether the content has a "requirement" member; top holds the
\* content's own fields
Plain(obj) == [json |-> TRUE, wrapped |-> FALSE, requirement |-> NoFields, top |-> obj]
Wrapped(req, obj) == [json |-> TRUE, wrapped |-> TRUE, requirement |-> req, top |-> obj]
NotJson == [json |-> FALSE, wrapped |-> FALSE, requirement |-> NoFields, top |-> NoFields]

Memos ==
  {NotJson, Plain(ObjA), Plain(ObjB), Plain(ObjEmptyArray), Plain(ObjBlankElement),
   Plain(ObjBlankString), Plain(ObjOnlyComma),
   Wrapped(ObjA, NoFields), Wrapped(NoFields, ObjB), Wrapped(ObjEmptyArray, ObjB)}

MemoLists == UNION {[1..n -> Memos] : n \in 0..MaxMemos}

\* const result: ParsedJobContent = {}
EmptyResult ==
  [postUrl |-> "", subnets |-> Undefined, agentName |-> "", agentDescription |-> "",
   podName |-> "", podDescription |-> ""]

\* if (v && !cur) cur = v
Take(cur, v) == IF v # "" /\ cur = "" THEN v ELSE cur

\* if (!cur) cur = normalizeSubnets(source): an array, empty or not, is truthy
TakeSubnets(cur, source) == IF ~cur.def THEN normalizeSubnets(source) ELSE cur

\* the body of the loop over the memos
ParseMemo(result, memo) ==
  IF ~memo.json THEN result
  ELSE LET req == IF memo.wrapped THEN memo.requirement ELSE memo.top
           content == memo.top
           postUrl == Take(result.postUrl, req.postUrl)
           subnets == TakeSubnets(result.subnets, req)
       IN [postUrl |-> Take(postUrl, content.postUrl),
           subnets |-> TakeSubnets(subnets, content),
           agentName |-> Take(result.agentName, req.agentName),
           agentDescription |-> Take(result.agentDescription, req.agentDescription),
           podName |-> Take(result.podName, req.podName),
           podDescription |-> Take(result.podDescription, req.podDescription)]

RECURSIVE parseFrom(_, _)
parseFrom(result, memos) ==
  IF memos = <<>> THEN result ELSE parseFrom(ParseMemo(result, memos[1]), Tail(memos))

parseJobContent(memos) == parseFrom(EmptyResult, memos)

ParseInit ==
  /\ Boot
  /\ st = NoStore
  /\ wr = NoRetry
  /\ mt = NoMint
  /\ \E m \in MemoLists : px = [op |-> None, memos |-> m, result |-> EmptyResult]

\* parseJobContent(job) is called on the job's memos
PParse ==
  /\ px.op = None
  /\ px' = [px EXCEPT !.op = "parseJobContent", !.result = parseJobContent(px.memos)]
  /\ UNCHANGED <<cache, mintedJobs, processingLocks, diskProcessed, diskMinted, jobs,
                 diskJobs, pods, clock, env, h, r, mintCalls, mints, deliveredOk, last,
                 refused, metadata, st, wr, mt>>

SpecParse == ParseInit /\ [][PParse]_vars

\* ---------------------------------------------------- withRetry on its own
MAX_RETRIES == 3
RETRY_BASE_DELAY == 1000

\* what fn can reject with: an Error with a message, or a value that is not
\* an Error.  A message is the sequence of its words.
Thrown ==
  {[isError |-> TRUE, message |-> <<"HTTP", "503">>],
   [isError |-> TRUE, message |-> <<"Network", "down">>],
   [isError |-> TRUE, message |-> <<"HTTP", "400">>],
   [isError |-> FALSE, message |-> <<"timeout">>]}

\* what fn can resolve with
Values == {"v1", "v2"}

\* options.maxRetries as the callers pass it, or absent
MaxGiven == 2
MaxRetriesOptions ==
  {[given |-> FALSE, n |-> 0]} \cup {[given |-> TRUE, n |-> k] : k \in 0..MaxGiven}
\* options.shouldRetry: absent, a callback that always refuses, isRetryableError
Policies == {"default", "never", "isRetryableError"}

\* err instanceof Error ? err : new Error(String(err))
AsError(err) == [isError |-> TRUE, message |-> err.message]

\* String.prototype.toLowerCase, word by word
toLowerCase(word) ==
  CASE word = "HTTP" -> "http" [] word = "Network" -> "network" [] OTHER -> word

\* isRetryableError(error): the lower-cased message includes one of the marks
isRetryableError(error) ==
  \E i \in 1..Len(error.message) :
     toLowerCase(error.message[i]) \in
       {"fetch failed", "network", "429", "rate limit", "502", "503", "504",
        "timeout", "econnreset"}

\* shouldRetry(lastError, attempt)
shouldRetry(policy, error, attempt) ==
  CASE policy = "default" -> TRUE
    [] policy = "never" -> FALSE
    [] OTHER -> isRetryableError(error)

\* a loop that never breaks on an error
GivesUpNever(attempt, maxRetries, retry) == FALSE

\* if (attempt >= maxRetries || !shouldRetry(lastError, attempt)) break
GivesUp(attempt, maxRetries, retry) == attempt >= maxRetries \/ ~retry

NoError == [isError |-> FALSE, message |-> <<>>]

\* withRetry(fn, label, options) has been called: the options are destructured
RetryCall(maxRetries, policy) ==
  [state |-> "called",
   maxRetries |-> IF maxRetries.given THEN maxRetries.n ELSE MAX_RETRIES,
   baseDelay |-> RETRY_BASE_DELAY,
   policy |-> policy,
   attempt |-> 0,
   hist |-> <<>>,          \* the outcome of every invocation of fn so far
   lastError |-> NoError,  \* NoError stands for undefined
   delay |-> 0,
   value |-> None,
   thrown |-> NoError]

RetryInit ==
  /\ Boot
  /\ st = NoStore
  /\ px = NoParse
  /\ mt = NoMint
  /\ \E m \in MaxRetriesOptions, p \in Policies : wr = RetryCall(m, p)

retryRest ==
  <<cache, mintedJobs, processingLocks, diskProcessed, diskMinted, jobs,
    diskJobs, pods, clock, env, h, r, mintCalls, mints, deliveredOk, last,
    refused, metadata, st, px, mt>>

\* the loop condition attempt <= maxRetries: fn is invoked, or the loop is
\* left and lastError is thrown
LoopTest(w, attempt) ==
  IF attempt <= w.maxRetries
  THEN [w EXCEPT !.state = "calling", !.attempt = attempt]
  ELSE [w EXCEPT !.state = "thrown", !.attempt = attempt, !.thrown = w.lastError]

\* for (let attempt = 1; ...
WEnter ==
  /\ wr.state = "called"
  /\ wr' = LoopTest(wr, 1)
  /\ UNCHANGED retryRest

\* await fn() resolves with a value: withRetry returns it
WResolve(v) ==
  /\ wr.state = "calling"
  /\ wr' = [wr EXCEPT !.state = "returned", !.value = v,
                      !.hist = Append(@, [ok |-> TRUE, val |-> v, err |-> NoError])]
  /\ UNCHANGED retryRest

\* await fn() rejects: the catch block breaks out of the loop and lastError
\* is thrown, or the backoff timer is started
WReject(err) ==
  /\ wr.state = "calling"
  /\ LET lastError == AsError(err)
         hist == Append(wr.hist, [ok |-> FALSE, val |-> None, err |-> err])
     IN IF GivesUp(wr.attempt, wr.maxRetries, shouldRetry(wr.policy, lastError, wr.attempt))
        THEN wr' = [wr EXCEPT !.state = "thrown", !.hist = hist,
                              !.lastError = lastError, !.thrown = lastError]
        ELSE wr' = [wr EXCEPT !.state = "sleeping", !.hist = hist,
                              !.lastError = lastError,
                              !.delay = wr.baseDelay * 2 ^ (wr.attempt - 1)]
  /\ UNCHANGED retryRest

\* the backoff timer fires: attempt++ and the loop condition is tested
WWake ==
  /\ wr.state = "sleeping"
  /\ wr' = LoopTest(wr, wr.attempt + 1)
  /\ UNCHANGED retryRest

RetryNext ==
  \/ WEnter
  \/ \E v \in Values : WResolve(v)
  \/ \E err \in Thrown : WReject(err)
  \/ WWake

SpecRetry == RetryInit /\ [][RetryNext]_vars

\* ------------------------------------------------------ mintPod on its own
\* chain.ts mintPod: the fee, balance and allowance prelude, the submission of
\* the mintPod transaction (through the smart account, or from the EOA inside
\* withRetry) and the wait for its receipt.  mt.sent counts the mintPod
\* transactions that reached the network, mt.tx is the hash mintPod waits on.

\* how the prelude ends (lines 470-530): the mint can go ahead, the balance
\* is below the fee, or a read or the approval threw
Preludes == {"ready", "insufficient", "thrown"}

\* how the receipt wait ends (lines 567-580)
Receipts == {"success", "reverted", "noPodId", "thrown"}

\* mintPod(clients) has been called
MintCall(useAA) ==
  [pc |-> "prelude", useAA |-> useAA, sent |-> 0, tx |-> 0, out |-> ""]

MintInit ==
  /\ Boot
  /\ st = NoStore
  /\ px = NoParse
  /\ wr = NoRetry
  /\ \E useAA \in Bool : mt = MintCall(useAA)

mintRest ==
  <<cache, mintedJobs, processingLocks, diskProcessed, diskMinted, jobs,
    diskJobs, pods, clock, env, h, r, mintCalls, mints, deliveredOk, last,
    refused, metadata, st, px>>

\* lines 470-536: the prelude ends; the smart account is used when the
\* clients carry one, otherwise withRetry is called with isRetryableError
MPrelude(res) ==
  /\ mt.pc = "prelude"
  /\ IF res = "ready"
     THEN IF mt.useAA
          THEN mt' = [mt EXCEPT !.pc = "sendTransaction"] /\ UNCHANGED wr
          ELSE /\ mt' = [mt EXCEPT !.pc = "withRetry"]
               /\ wr' = RetryCall([given |-> FALSE, n |-> 0], "isRetryableError")
     ELSE /\ mt' = [mt EXCEPT !.pc = "thrown", !.out = res]
          /\ UNCHANGED wr
  /\ UNCHANGED mintRest

\* lines 537-548: aaClient.sendTransaction resolves with the hash of the
\* transaction it sent, or rejects, before or after the transaction went out
MSendTransaction(ok, sent) ==
  /\ mt.pc = "sendTransaction"
  /\ ok => sent
  /\ mt' = [mt EXCEPT !.sent = IF sent THEN @ + 1 ELSE @,
                      !.tx = IF ok THEN mt.sent + 1 ELSE 0,
                      !.pc = IF ok THEN "receipt" ELSE "thrown",
                      !.out = IF ok THEN "" ELSE "thrown"]
  /\ UNCHANGED <<wr, mintRest>>

\* withRetry enters its loop
MEnter ==
  /\ mt.pc = "withRetry" /\ wr.state = "called"
  /\ wr' = LoopTest(wr, 1)
  /\ UNCHANGED <<mt, mintRest>>

\* lines 551-563: walletClient.writeContract resolves with the hash of the
\* transaction it broadcast: withRetry returns it
MWriteResolves ==
  /\ mt.pc = "withRetry" /\ wr.state = "calling"
  /\ wr' = [wr EXCEPT !.state = "returned", !.value = mt.sent + 1,
                      !.hist = Append(@, [ok |-> TRUE, val |-> mt.sent + 1, err |-> NoError])]
  /\ mt' = [mt EXCEPT !.sent = @ + 1, !.tx = mt.sent + 1, !.pc = "receipt"]
  /\ UNCHANGED mintRest

\* walletClient.writeContract rejects, before the transaction went out or
\* after (the node took it and the answer was lost): withRetry sleeps and
\* calls it again when isRetryableError accepts the error and attempts are
\* left, otherwise it throws
MWriteRejects(err, sent) ==
  /\ mt.pc = "withRetry" /\ wr.state = "calling"
  /\ LET lastError == AsError(err)
         hist == Append(wr.hist, [ok |-> FALSE, val |-> None, err |-> err])
         over == GivesUp(wr.attempt, wr.maxRetries, shouldRetry(wr.policy, lastError, wr.attempt))
     IN /\ wr' = IF over
                 THEN [wr EXCEPT !.state = "thrown", !.hist = hist,
                                 !.lastError = lastError, !.thrown = lastError]
                 ELSE [wr EXCEPT !.state = "sleeping", !.hist = hist,
                                 !.lastError = lastError,
                                 !.delay = wr.baseDelay * 2 ^ (wr.attempt - 1)]
        /\ mt' = [mt EXCEPT !.sent = IF sent THEN @ + 1 ELSE @,
                            !.pc = IF over THEN "thrown" ELSE @,
                            !.out = IF over THEN "thrown" ELSE @]
  /\ UNCHANGED mintRest

\* the backoff timer of withRetry fires
MWake ==
  /\ mt.pc = "withRetry" /\ wr.state = "sleeping"
  /\ wr' = LoopTest(wr, wr.attempt + 1)
  /\ UNCHANGED <<mt, mintRest>>

\* lines 567-580: waitForTransactionReceipt(mintTx) answers or throws; a
\* reverted transaction and a receipt without a pod id are thrown
MReceipt(res) ==
  /\ mt.pc = "receipt"
  /\ mt' = [mt EXCEPT !.pc = IF res = "success" THEN "returned" ELSE "thrown", !.out = res]
  /\ UNCHANGED <<wr, mintRest>>

MintNext ==
  \/ \E res \in Preludes : MPrelude(res)
  \/ \E ok \in Bool, sent \in Bool : MSendTransaction(ok, sent)
  \/ MEnter
  \/ MWriteResolves
  \/ \E err \in Thrown, sent \in Bool : MWriteRejects(err, sent)
  \/ MWake
  \/ \E res \in Receipts : MReceipt(res)

SpecMint == MintInit /\ [][MintNext]_vars

\* ================================================================ claims
HandlerRun == last.kind = "handlePublishJob"
RetryRun == last.kind = "retryPendingJobs"

\* the calls of the run that just ended to operation op, in order
CallsTo(op) == SelectSeq(last.calls, LAMBDA c : c.op = op)

\* the arguments of a sequence of calls
ArgsOf(calls) == [i \in 1..Len(calls) |-> calls[i].arg]

\* the tweet a job's payload names
TweetOfJob(j) == extractTweetId(JobContent[j].postUrl)

\* C1: for every tweet, over all notifications, crashes and restarts, mintPod
\* is invoked at most once.
C1_AtMostOneMintCall == \A t \in Tweets : mintCalls[t] <= 1

\* C2: whenever mintPod is invoked for job J, by the handler or by the
\* recovery pass, J is not in the minted-job set: hasJobMinted(J) is false and
\* there is no durable mint record of J (dedup file, pod table).
C2_MintOnlyForUnmintedJob ==
  last.kind = "mintPod" =>
    /\ ~hasJobMinted(last.job)
    /\ last.job \notin SeqToSet(diskMinted)
    /\ PodOf(last.job).jobId # last.job

\* C3: whenever mintPod is invoked for tweet T, by the handler or by the
\* recovery pass, hasProcessed(T) is false at that moment.
C3_MintOnlyForUnprocessedTweet ==
  last.kind = "mintPod" => ~hasProcessed(last.tweet)

\* C4: of two handlePublishJob invocations in flight for the same tweet at
\* most one is past acquireProcessingLock; the one that finds the lock busy
\* returns while the other holds it, having called neither fetchTweet, mintPod,
\* submitPodMetadata, job.deliver nor any WAL write.
C4_ConcurrentDuplicateSuppressed ==
  /\ \A p, q \in Procs :
       (p # q /\ HoldsLock(p) /\ HoldsLock(q)) => TweetOf(p) # TweetOf(q)
  /\ (HandlerRun /\ last.out = "busy") =>
       /\ \E q \in Procs : HoldsLock(q) /\ TweetOf(q) = TweetOfJob(last.job)
       /\ Ops(last.calls) \subseteq {"getSubnets", "acquireProcessingLock"}

C4_Witness == HandlerRun /\ last.out = "busy"

\* C5: a notification whose payload lacks postUrl or the subnets, at any phase,
\* is rejected with the reason naming the missing field, its only call is
\* job.reject, it never gets past validation (so it takes no lock, accepts
\* nothing and calls no external service), and its job never has a WAL entry.
C5_ValidationPrecedesSideEffects ==
  \A j \in Jobs :
    (JobContent[j].postUrl = NoUrl \/ JobContent[j].subnets = <<>>) =>
      /\ IndexOf(jobs, j) = 0 /\ IndexOf(diskJobs, j) = 0
      /\ \A p \in Procs : h[p].job # j
      /\ (HandlerRun /\ last.job = j) =>
           /\ last.out = IF JobContent[j].postUrl = NoUrl
                         THEN "reject: Missing postUrl" ELSE "reject: Missing subnet"
           /\ last.calls = <<Call("reject", "", 0)>>

C5_Witness == HandlerRun /\ last.out = "reject: Missing subnet" /\ last.phase = 2

\* the happy path of C6: a phase-2 run of a job that asks for two distinct
\* categories and has its WAL entry from the earlier phase, in which every
\* call returned normally and the result was delivered
HappyRun ==
  /\ HandlerRun /\ last.phase = 2 /\ last.out = "delivered"
  /\ Len(JobContent[last.job].subnets) = 2
  /\ JobContent[last.job].subnets[1] # JobContent[last.job].subnets[2]
  /\ "savePendingJob" \notin Ops(last.calls)
  /\ \A i \in 1..Len(last.calls) : last.calls[i].ok
  /\ \A i \in 1..Len(last.calls) :
       last.calls[i].op = "getSubnets" => last.calls[i].arg # "throw"

\* what C6 promises of a happy run apart from the categories
HappyRunEffects ==
  /\ Len(CallsTo("mintPod")) = 1
  /\ Len(CallsTo("deliver")) = 1
  /\ \A i \in 1..Len(CallsTo("submitPodMetadata")) :
       /\ CallsTo("submitPodMetadata")[i].tx = last.deliverable.txHash
       /\ CallsTo("submitPodMetadata")[i].pod = last.deliverable.podId
  /\ ~last.deliverable.hasFailedSubnets
  /\ IndexOf(jobs, last.job) = 0
  /\ TweetOfJob(last.job) \notin processingLocks

C7_PartialFailureDelivery ==
  (HandlerRun /\ "deliver" \in Ops(last.calls)) =>
    /\ Len(CallsTo("mintPod")) = 1
    /\ ArgsOf(CallsTo("submitPodMetadata")) = last.subnets
    /\ Len(CallsTo("deliver")) = 1
    /\ last.deliverable.subnets =
         ArgsOf(SelectSeq(CallsTo("submitPodMetadata"), LAMBDA c : c.ok))
    /\ last.deliverable.failedSubnets =
         ArgsOf(SelectSeq(CallsTo("submitPodMetadata"), LAMBDA c : ~c.ok))
    /\ last.deliverable.hasFailedSubnets <=> last.deliverable.failedSubnets # <<>>
    /\ last.out = "delivered" => IndexOf(jobs, last.job) = 0

C7_Witness ==
  /\ HandlerRun /\ last.out = "delivered"
  /\ last.deliverable.subnets = <<"1">>
  /\ last.deliverable.failedSubnets = <<"2">>
  /\ last.deliverable.hasFailedSubnets

\* C8: once a job J1 on tweet T has been minted and delivered, every later
\* notification for another (well-formed) job J2 on T is rejected with "Tweet
\* T already processed" and neither accepts, writes the WAL, fetches, mints
\* nor delivers.
C8_ResubmissionRejected ==
  \A j1 \in deliveredOk :
    ( /\ HandlerRun /\ last.job # j1
      /\ JobContent[last.job].postUrl # NoUrl /\ JobContent[last.job].subnets # <<>>
      /\ TweetOfJob(last.job) = TweetOfJob(j1) ) =>
        /\ last.out = "reject: already processed"
        /\ Ops(last.calls) \subseteq {"getSubnets", "acquireProcessingLock", "reject"}

\* C9: the recovery of an entry found 'minted' never invokes mintPod; when it
\* gets to the metadata loop it invokes submitPodMetadata exactly for the
\* entry's subnets that are not in completedSubnets, in order, with the
\* entry's mintTxHash and podId, and it submits nothing otherwise.
C9_MintedRecoveryNeverMints ==
  (RetryRun /\ last.branch = "minted") =>
    /\ "mintPod" \notin Ops(last.calls)
    /\ last.entry.mintTxHash # 0
    /\ ArgsOf(CallsTo("submitPodMetadata")) =
         IF last.out = "removed"
         THEN SelectSeq(last.entry.subnets,
                        LAMBDA s : s \notin SeqToSet(last.entry.completedSubnets))
         ELSE <<>>
    /\ \A i \in 1..Len(CallsTo("submitPodMetadata")) :
         /\ CallsTo("submitPodMetadata")[i].tx = last.entry.mintTxHash
         /\ CallsTo("submitPodMetadata")[i].pod = last.entry.podId

C9_Witness ==
  /\ RetryRun /\ last.branch = "minted" /\ last.out = "removed"
  /\ Len(CallsTo("submitPodMetadata")) = 2

\* C10: a WAL entry is removed only after job.deliver has succeeded for its
\* job, or by the recovery pass abandoning it (an 'accepted' entry older than
\* 24h, or one whose tweet is already processed).
C10_RemovedOnlyAfterDelivery ==
  last.removed =>
    \/ last.job \in deliveredOk
    \/ RetryRun /\ last.out \in {"expired", "processed"}

\* C11: a recovery pass over an entry that an earlier run (a live run or a
\* pass, interrupted or not) has already worked on neither mints for a tweet
\* that has been minted nor submits a category the platform already holds for
\* the job.
C11_IdempotentRecovery ==
  RetryRun =>
    /\ last.again = {}
    /\ "mintPod" \in Ops(last.calls) =>
         mints[extractTweetId(last.entry.postUrl)] <=
           (IF "markJobMinted" \in Ops(last.calls) THEN 1 ELSE 0)

\* job j has its mint on record (in memory and in the dedup file), has not
\* been delivered, and no invocation for it is at a point from which
\* handlePublishJob goes on to job.deliver
Stuck(j) ==
  /\ hasJobMinted(j) /\ j \in SeqToSet(diskMinted)
  /\ j \notin deliveredOk
  /\ \A p \in Procs :
       h[p].job = j =>
         h[p].pc \notin {"getJobMint", "mintPod", "markJobMinted", "markProcessed",
                         "savePod", "deliver"}

\* C12, in the form a finite run refutes: after mintPod succeeded for job J
\* and until job.deliver succeeds for J, delivery for J can still be resumed,
\* i.e. J is never stuck.
C12_ResumableDelivery == \A j \in Jobs : ~Stuck(j)

\* once a job is stuck no step delivers it: neither a further notification,
\* nor a restart, nor a recovery pass (why a stuck state refutes C12 under any
\* fairness)
C12_StuckIsForever == [][\A j \in Jobs : Stuck(j) => Stuck(j)']_vars

\* a list without repeated entries
Distinct(seq) == \A a, b \in 1..Len(seq) : a # b => seq[a] # seq[b]

\* C13: at most one unreleased acquisition exists per key;
\* acquireProcessingLock(k) returns a release handle exactly when no
\* unreleased acquisition of k exists, and null otherwise, whatever is held
\* for the other keys (so it succeeds again once the handle was released).
C13_MutualExclusionGate ==
  /\ \A k \in StoreKeys : st.held[k] <= 1 /\ (Busy(k) <=> st.held[k] = 1)
  /\ st.op = "acquireProcessingLock" =>
       (st.got = "handle" <=> st.unreleased = 0) /\ st.got \in {"handle", "null"}

C13_Witness ==
  /\ st.op = "acquireProcessingLock" /\ st.got = "handle" /\ st.calls = MaxStoreCalls
  /\ \A k \in StoreKeys : st.held[k] = 1

C15_IdempotencyStateSurvivesRestart ==
  /\ Distinct(diskProcessed) /\ Distinct(diskMinted)
  /\ st.op = "initDedup" =>
       /\ \A t \in st.durableT : hasProcessed(t)
       /\ \A j \in st.durableJ : hasJobMinted(j)

C15_Witness ==
  /\ st.op = "initDedup" /\ st.durableT # {} /\ st.durableJ # {}
  /\ hasProcessed("t1") /\ hasJobMinted("j1")

\* the newest n entries of a list, in order
LastN(seq, n) == IF Len(seq) > n THEN SubSeq(seq, Len(seq) - n + 1, Len(seq)) ELSE seq

\* what C16 says of the file: never more than MAX_ENTRIES ids, and they are
\* the newest MAX_ENTRIES ids pushed, in the order of the pushes
C16_FileTrimmed ==
  /\ Len(diskProcessed) <= MAX_ENTRIES
  /\ diskProcessed = LastN(st.log, MAX_ENTRIES)

\* C16: after any sequence of markProcessed calls the processed set, as
\* persisted and as counted by getProcessedCount(), never holds more than
\* MAX_ENTRIES ids, and the ids dropped are the oldest ones.
C16_TrimPolicy == C16_FileTrimmed /\ getProcessedCount <= MAX_ENTRIES

\* C17: the category list one handlePublishJob run works with has no
\* duplicates, so the run calls submitPodMetadata at most once per category.
C17_TargetsDeduplicated ==
  /\ \A p \in Procs : HoldsLock(p) => Distinct(h[p].subnets)
  /\ HandlerRun => Distinct(ArgsOf(CallsTo("submitPodMetadata")))

\* subnet sn is neither an id nor, up to case and separators, a name of the catalog
Unmatched(sn) ==
  /\ sn \notin validIds
  /\ \A i \in 1..Len(SubnetList) : normalize(SubnetList[i].subnet) # normalize(sn)

RECURSIVE Sources(_)
Sources(memos) ==
  IF memos = <<>> THEN <<>>
  ELSE (IF ~memos[1].json THEN <<>>
        ELSE IF memos[1].wrapped THEN <<memos[1].requirement, memos[1].top>>
        ELSE <<memos[1].top>>) \o Sources(Tail(memos))

\* the first non-empty text among vals, "" when there is none
FirstText(vals) ==
  LET hits == {i \in 1..Len(vals) : vals[i] # ""}
  IN IF hits = {} THEN "" ELSE vals[CHOOSE i \in hits : \A k \in hits : i <= k]

\* the first non-empty subnet list among the sources, <<>> when there is none
FirstSubnets(srcs) ==
  LET hits == {i \in 1..Len(srcs) : normalizeSubnets(srcs[i]).val # <<>>}
  IN IF hits = {} THEN <<>>
     ELSE normalizeSubnets(srcs[CHOOSE i \in hits : \A k \in hits : i <= k]).val

\* C18: parseJobContent returns, for each field, the first non-empty value
\* found in the memos in order, looking in the "requirement" wrapper and at
\* the top level of each memo and skipping the memos that are not JSON; an
\* empty earlier value never shadows a later non-empty one
C18_FirstNonEmptyWins ==
  px.op = "parseJobContent" =>
    LET srcs == Sources(px.memos)
        of(f) == [i \in 1..Len(srcs) |-> srcs[i][f]]
    IN /\ px.result.postUrl = FirstText(of("postUrl"))
       /\ px.result.subnets.val = FirstSubnets(srcs)
       /\ px.result.agentName = FirstText(of("agentName"))
       /\ px.result.agentDescription = FirstText(of("agentDescription"))
       /\ px.result.podName = FirstText(of("podName"))
       /\ px.result.podDescription = FirstText(of("podDescription"))

\* the part of C18 that is about the subnets alone
C18_SubnetsNeverShadowed ==
  px.op = "parseJobContent" => px.result.subnets.val = FirstSubnets(Sources(px.memos))

\* the part of C18 that is about postUrl alone
C18_PostUrlFirstWins ==
  px.op = "parseJobContent" =>
    LET srcs == Sources(px.memos)
    IN px.result.postUrl = FirstText([i \in 1..Len(srcs) |-> srcs[i].postUrl])

AfterCheckpoint ==
  {"updatePendingJobStatus", "savePod", "getOrCreateBuyerAgent", "submitPodMetadata", "deliver"}

\* in a sequence of calls, a mintPod that is followed by one of the later
\* steps is followed at once by markJobMinted and markProcessed
CheckpointFirst(calls) ==
  \A i \in 1..Len(calls) :
    (calls[i].op = "mintPod" /\ \E k \in (i + 1)..Len(calls) : calls[k].op \in AfterCheckpoint) =>
      /\ i + 2 <= Len(calls)
      /\ calls[i + 1].op = "markJobMinted"
      /\ calls[i + 2].op = "markProcessed"
      /\ \A k \in 1..i : calls[k].op \notin AfterCheckpoint

\* C21: after mintPod returned, in the handler and in the recovery pass alike,
\* markJobMinted and markProcessed have completed before the WAL update,
\* savePod, the buyer lookup, any submitPodMetadata and job.deliver; and a
\* notification that comes in, in the same process, after the checkpoint of
\* its job or its tweet has landed never gets to mintPod, whatever failed
\* after the checkpoint.
C21_MintCheckpointOrdering ==
  /\ \A p \in Procs : CheckpointFirst(h[p].calls)
  /\ CheckpointFirst(r.calls)
  /\ CheckpointFirst(last.calls)
  /\ \A p \in Procs :
       h[p].pc \in {"markProcessed", "savePod", "deliver"} =>
         h[p].job \in mintedJobs /\ TweetOf(p) \in cache
  /\ (r.pc \in {"markProcessed", "savePod", "submitPodMetadata"} /\ r.branch = "accepted") =>
       r.pending[r.i] \in mintedJobs /\ extractTweetId(Current.postUrl) \in cache
  /\ \A p \in Procs : h[p].late => h[p].pc = "getSubnets"
  /\ (HandlerRun /\ last.late) =>
       /\ Ops(last.calls) \subseteq {"getSubnets", "reject"}
       /\ last.out \in {"skip: job minted", "reject: already processed",
                        "reject: Invalid subnet", "reject: Missing postUrl",
                        "reject: Missing subnet"}

\* after a mint whose later steps failed and were never delivered, a second
\* job on the same tweet is notified in the same process and turned away
C21_Witness ==
  /\ HandlerRun /\ last.late /\ last.phase = 2
  /\ last.out = "reject: already processed"
  /\ mints[TweetOfJob(last.job)] = 1
  /\ deliveredOk = {} /\ env.restarts = 0
  /\ \E j \in Jobs : getPendingJob(jobs, j).status = "minted" /\ getPendingJob(jobs, j).lastError

\* ---------------------------------------------------------------- C22
\* the first index of a call to op in calls, 0 when there is none
FirstCall(calls, op) ==
  LET hits == {i \in 1..Len(calls) : calls[i].op = op}
  IN IF hits = {} THEN 0 ELSE CHOOSE i \in hits : \A k \in hits : i <= k

\* C22: a notification at phase <= 1 (a missing or non-numeric phase
\* included) never gets to fetchTweet, mintPod, submitPodMetadata or
\* job.deliver; it calls job.accept only at phase 0; it writes the 'accepted'
\* WAL entry before it posts the payment requirement; and when it returns
\* after having taken the lock, the lock is free, whether accept or
\* createRequirement threw or not.
C22_PrePaymentHandling ==
  /\ \A p \in Procs :
       (h[p].pc # "idle" /\ h[p].phase <= 1) =>
         /\ h[p].pc \in {"getSubnets", "acquireProcessingLock", "accept", "createRequirement"}
         /\ h[p].pc = "accept" => h[p].phase = 0
         /\ h[p].pc = "createRequirement" =>
              /\ FirstCall(h[p].calls, "savePendingJob") # 0
              /\ FirstCall(h[p].calls, "savePendingJob") < FirstCall(h[p].calls, "createRequirement")
              /\ ("accept" \in Ops(h[p].calls)) <=> h[p].phase = 0
  /\ (HandlerRun /\ last.phase <= 1) =>
       /\ Ops(last.calls) \cap {"fetchTweet", "mintPod", "submitPodMetadata", "deliver"} = {}
       /\ "accept" \in Ops(last.calls) => last.phase = 0
       /\ "createRequirement" \in Ops(last.calls) =>
            /\ FirstCall(last.calls, "savePendingJob") # 0
            /\ FirstCall(last.calls, "savePendingJob") < FirstCall(last.calls, "createRequirement")
       /\ last.out \in {"awaiting payment", "accept failed"} =>
            /\ TweetOfJob(last.job) \notin processingLocks
            /\ ("accept" \in Ops(last.calls)) <=> last.phase = 0
       /\ last.out = "awaiting payment" => "createRequirement" \in Ops(last.calls)
       /\ last.out = "accept failed" => "savePendingJob" \notin Ops(last.calls)

\* a notification without a phase has been through the pre-payment branch
C22_Witness ==
  /\ HandlerRun /\ last.phase = -1 /\ last.out = "awaiting payment"
  /\ getPendingJob(jobs, last.job).status = "accepted"

\* ---------------------------------------------------------------- C23
\* C23: mintPod is invoked for job J, by the handler or by the recovery pass,
\* only if handlePublishJob has been notified of J at phase >= 2.
C23_PaymentGate ==
  last.kind = "mintPod" => last.job \in env.paid

\* ---------------------------------------------------------------- C24
\* C24: a notification for a job that is in the minted-job set takes no
\* invocation any further: handlePublishJob returns at once, having called
\* nothing (no accept, reject, createRequirement, deliver, no external
\* service), taken no lock, and left the WAL, the processed set, the minted
\* set and their files as they were.
C24_MintedNotificationSkipped ==
  [][ env'.notified # env.notified =>
        /\ \A p \in Procs : h'[p] # h[p] => h'[p].job \notin mintedJobs
        /\ (last'.kind = "handlePublishJob" /\ last'.job \in mintedJobs) =>
             /\ last'.out = "skip: job minted"
             /\ last'.calls = <<>>
             /\ UNCHANGED <<dedupVars, walVars, processingLocks, pods, metadata, h, r>>
        /\ last'.kind = "handlePublishJob" \/ \E p \in Procs : h'[p] # h[p] ]_vars

C24_Witness ==
  /\ HandlerRun /\ last.out = "skip: job minted" /\ last.phase = 2
  /\ last.job \in mintedJobs

\* ---------------------------------------------------------------- C25
\* C25: a paid-phase run that finds its job in the minted-job index after the
\* fetch (in memory, or through getJobMint) does not mint, submits the
\* categories with the recorded mint result, delivers, and removes the WAL entry.
C25_RecheckResumes ==
  (HandlerRun /\ last.out \in {"skip: job minted (memory)", "skip: job minted (DynamoDB)"}) =>
    /\ "mintPod" \notin Ops(last.calls)
    /\ "submitPodMetadata" \in Ops(last.calls)
    /\ "deliver" \in Ops(last.calls)
    /\ IndexOf(jobs, last.job) = 0

\* the half of C25 the code keeps: such a run does not mint
C25_RecheckNeverMints ==
  (HandlerRun /\ last.out \in {"skip: job minted (memory)", "skip: job minted (DynamoDB)"}) =>
    "mintPod" \notin Ops(last.calls)

\* ---------------------------------------------------------------- C26
\* C26: a notification that finds the lock busy is ignored without a
\* job.reject at phase >= 2 and rejected as a duplicate at phase <= 1.
C26_BusyLockAsymmetry ==
  (HandlerRun /\ last.out = "busy") =>
    IF last.phase >= PHASE_TRANSACTION
    THEN "reject" \notin Ops(last.calls)
    ELSE "reject" \in Ops(last.calls)

\* ---------------------------------------------------------------- C27
\* the recovery pass is at work on an entry of tweet t, on the way to mintPod
\* or past it
PassOn(t) ==
  /\ r.pc \in {"fetchTweet", "mintPod", "markJobMinted", "markProcessed", "savePod",
               "submitPodMetadata"}
  /\ r.branch = "accepted"
  /\ extractTweetId(Current.postUrl) = t

\* a handler invocation is past the gate for tweet t on the way to mintPod
HandlerOn(p, t) ==
  /\ h[p].pc \in {"fetchTweet", "getJobMint", "mintPod", "markJobMinted", "markProcessed",
                  "savePod", "deliver"}
  /\ TweetOf(p) = t

\* C27: at no time are two executions that can reach mintPod for the same
\* tweet both between their dedup check and their completion: neither two
\* handler runs, nor a handler run and an iteration of the recovery pass.
C27_NoOverlapPastGate ==
  \A t \in Tweets :
    /\ \A p, q \in Procs : (p # q /\ HandlerOn(p, t)) => ~HandlerOn(q, t)
    /\ \A p \in Procs : HandlerOn(p, t) => ~PassOn(t)

\* the half of C27 that is about handler runs alone
C27_HandlersNeverOverlap ==
  \A t \in Tweets : \A p, q \in Procs : (p # q /\ HandlerOn(p, t)) => ~HandlerOn(q, t)

\* ---------------------------------------------------------------- C28
\* C28: a paid-phase run in which fetchTweet, mintPod (other than for
\* insufficient funds), savePod, getOrCreateBuyerAgent or job.deliver threw
\* leaves the job's WAL entry in place with retryCount one higher and
\* lastError set, and the lock free.
C28_FailureCheckpointed ==
  [][ (last'.kind = "handlePublishJob" /\ last'.out = "failed" /\ last' # last) =>
        LET j == last'.job
        IN /\ IndexOf(jobs', j) # 0
           /\ getPendingJob(jobs', j).retryCount = getPendingJob(jobs, j).retryCount + 1
           /\ getPendingJob(jobs', j).lastError
           /\ TweetOfJob(j) \notin processingLocks' ]_vars

\* ---------------------------------------------------------------- C29
RejectReasons ==
  {"reject: Missing postUrl", "reject: Missing subnet", "reject: Invalid subnet",
   "reject: already processed", "reject: insufficient REPPO"}

C30_InsufficientFundsTerminal ==
  /\ last.kind = "mintPod" => last.job \notin refused
  /\ \A j \in refused : getPendingJob(jobs, j).status \in {None, "accepted"}

\* the half of C30 the code keeps: the job is rejected for that reason, with
\* the lock released and without a checkpoint or an error record
C30_RejectedForInsufficientFunds ==
  (HandlerRun /\ last.out = "reject: insufficient REPPO") =>
    /\ last.job \in refused
    /\ last.calls[Len(last.calls)].op = "reject"
    /\ Ops(last.calls) \cap {"markJobMinted", "markProcessed", "updatePendingJobStatus",
                             "recordPendingJobError", "savePod", "deliver"} = {}
    /\ TweetOfJob(last.job) \notin processingLocks

\* what is left of C28 when the entry is still in the WAL as the call fails:
\* the error is recorded on it
C28_RecordedWhenPresent ==
  [][ (last'.kind = "handlePublishJob" /\ last'.out = "failed" /\ last' # last
       /\ IndexOf(jobs, last'.job) # 0) =>
        LET j == last'.job
        IN /\ IndexOf(jobs', j) # 0
           /\ getPendingJob(jobs', j).retryCount = getPendingJob(jobs, j).retryCount + 1
           /\ getPendingJob(jobs', j).lastError
           /\ TweetOfJob(j) \notin processingLocks' ]_vars

\* ---------------------------------------------------------------- C31
\* C31: whenever mintPod is invoked for job J, by the handler or by the
\* recovery pass, the WAL holds an entry for J.
C31_WriteAhead ==
  last.kind = "mintPod" => IndexOf(jobs, last.job) # 0

\* the half of C31 about checkpoint B: a paid-phase run whose job had no
\* entry calls savePendingJob before fetchTweet and mintPod
C31_CheckpointBFirst ==
  \A p \in Procs :
    (h[p].phase >= PHASE_TRANSACTION /\ "fetchTweet" \in Ops(h[p].calls)) =>
      \/ "savePendingJob" \notin Ops(h[p].calls)
      \/ FirstCall(h[p].calls, "savePendingJob") < FirstCall(h[p].calls, "fetchTweet")

\* ---------------------------------------------------------------- C32
\* C32: in memory, an entry with status 'minted' has its mintTxHash set, its
\* job is in the minted-job set and its tweet is in the processed set.
C32_MintedEntryConsistent ==
  \A i \in 1..Len(jobs) :
    jobs[i].status = "minted" =>
      /\ jobs[i].mintTxHash # 0
      /\ hasJobMinted(jobs[i].jobId)
      /\ hasProcessed(extractTweetId(jobs[i].postUrl))

\* ---------------------------------------------------------------- C33
\* C33: as long as an entry exists, its status never goes back from 'minted'
\* to 'accepted' and its mintTxHash, once set, is neither cleared nor replaced,
\* whatever notifications, failed writes and restarts occur.
C33_StatusMonotonic ==
  [][ \A j \in Jobs :
        (IndexOf(jobs, j) # 0 /\ IndexOf(jobs', j) # 0) =>
          /\ getPendingJob(jobs, j).status = "minted" =>
               getPendingJob(jobs', j).status = "minted"
          /\ getPendingJob(jobs, j).mintTxHash # 0 =>
               getPendingJob(jobs', j).mintTxHash = getPendingJob(jobs, j).mintTxHash ]_vars

\* C33 within one process: no restart step
C33_StatusMonotonicInProcess ==
  [][ \A j \in Jobs :
        (env'.restarts = env.restarts /\ IndexOf(jobs, j) # 0 /\ IndexOf(jobs', j) # 0) =>
          /\ getPendingJob(jobs, j).status = "minted" =>
               getPendingJob(jobs', j).status = "minted"
          /\ getPendingJob(jobs, j).mintTxHash # 0 =>
               getPendingJob(jobs', j).mintTxHash = getPendingJob(jobs, j).mintTxHash ]_vars

C36_AppendOnly ==
  [][ st'.op # "initDedup" =>
        /\ cache \subseteq cache'
        /\ mintedJobs \subseteq mintedJobs' ]_vars

\* C36 in the engine: no step of a handler run or of the recovery pass
\* removes an element of either set
C36_AppendOnlyEngine ==
  [][ env'.restarts = env.restarts =>
        /\ cache \subseteq cache'
        /\ mintedJobs \subseteq mintedJobs' ]_vars

\* two tweets were marked, then a job: the three calls of one process
C36_Witness ==
  /\ st.calls = 3
  /\ st.op = "markJobMinted"
  /\ cache = StoreKeys
  /\ hasJobMinted(st.arg)

\* ---------------------------------------------------------------- C35
\* an iteration of the recovery pass ends in this step
IterEnds == r.pc \notin {"idle", "start", "next"} /\ r'.pc = "next"

\* a step within one pass
PassGoesOn == r.pc \notin {"idle", "start"} /\ r'.pc \notin {"idle", "start"}

\* C35: the pass takes up each entry of its snapshot once, in order; an
\* iteration that fails leaves its entry in the WAL with retryCount one higher
\* and lastError set, and the pass goes on to the next entry.
C35_PassAttemptsOnce ==
  [][ /\ PassGoesOn =>
           /\ r'.pending = r.pending
           /\ r'.i \in {r.i, r.i + 1}
           /\ IterEnds => r'.i = r.i + 1
      /\ (IterEnds /\ last'.out = "failed") =>
           LET j == r.pending[r.i]
           IN /\ IndexOf(jobs, j) # 0 /\ IndexOf(jobs', j) # 0
              /\ getPendingJob(jobs', j).retryCount = getPendingJob(jobs, j).retryCount + 1
              /\ getPendingJob(jobs', j).lastError ]_vars

\* C35 without the race: the failure of an iteration whose entry is still in
\* the WAL is recorded on it, and the pass goes on
C35_RecordedWhenPresent ==
  [][ /\ PassGoesOn =>
           /\ r'.pending = r.pending
           /\ r'.i \in {r.i, r.i + 1}
           /\ IterEnds => r'.i = r.i + 1
      /\ (IterEnds /\ last'.out = "failed" /\ IndexOf(jobs, r.pending[r.i]) # 0) =>
           LET j == r.pending[r.i]
           IN /\ IndexOf(jobs', j) # 0
              /\ getPendingJob(jobs', j).retryCount = getPendingJob(jobs, j).retryCount + 1
              /\ getPendingJob(jobs', j).lastError ]_vars

\* ---------------------------------------------------------------- C37
\* the outcomes of a run that had acquired the processing lock
LockedOutcomes ==
  {"reject: already processed", "accept failed", "awaiting payment",
   "skip: job minted (memory)", "skip: job minted (DynamoDB)",
   "reject: insufficient REPPO", "delivered", "failed"}

C38_OwnReleaseOnly ==
  /\ \A p \in Procs : HoldsLock(p) => TweetOf(p) \in processingLocks
  /\ \A p, q \in Procs : (p # q /\ HoldsLock(p) /\ HoldsLock(q)) => TweetOf(p) # TweetOf(q)

\* a run has just released twice (insufficient funds or a skip path) while
\* another run for the same tweet is in flight and about to ask for the lock
C38_Witness ==
  /\ HandlerRun /\ last.out \in {"skip: job minted (memory)", "skip: job minted (DynamoDB)",
                                 "reject: insufficient REPPO"}
  /\ \E p \in Procs : h[p].pc = "getSubnets" /\ TweetOf(p) = TweetOfJob(last.job)
  /\ processingLocks = {}

\* ---------------------------------------------------------------- C39
\* the run that just ended called job.deliver
DeliverRun == HandlerRun /\ "deliver" \in Ops(last.calls)

\* the positions of the submitPodMetadata calls of the run that just ended
SubmitAt == {i \in 1..Len(last.calls) : last.calls[i].op = "submitPodMetadata"}

\* job.deliver comes after the one mintPod call of the same paid-phase run,
\* which succeeded, and after the metadata loop, and carries the hash that
\* mint returned; the recovery pass never delivers; a delivered job has a pod
\* record
DeliveryAfterMint ==
  /\ DeliverRun =>
       LET m == FirstCall(last.calls, "mintPod")
           d == FirstCall(last.calls, "deliver")
       IN /\ last.phase >= PHASE_TRANSACTION
          /\ Len(CallsTo("mintPod")) = 1 /\ Len(CallsTo("deliver")) = 1
          /\ m # 0 /\ m < d /\ last.calls[m].ok
          /\ mints[TweetOfJob(last.job)] >= 1
          /\ \A i \in SubmitAt : m < i /\ i < d /\ last.calls[i].tx = last.deliverable.txHash
          /\ last.calls[d].tx = last.deliverable.txHash
          /\ last.deliverable.txHash \in 1..SumOver(mintCalls, Tweets)
          /\ \A k \in 1..Len(last.subnets) :
               \E i \in SubmitAt : last.calls[i].arg = last.subnets[k]
  /\ RetryRun => "deliver" \notin Ops(last.calls)
  /\ \A j \in deliveredOk : \E q \in pods : q.jobId = j

\* C39: job.deliver is called for a job only after mintPod succeeded for it
\* in the same run and after every target category has been attempted exactly
\* once, with the hash that mint returned; no path delivers for a job that was
\* not minted.
C39_DeliveryImpliesMint ==
  /\ DeliveryAfterMint
  /\ DeliverRun =>
       \A s \in SeqToSet(last.subnets) :
         Cardinality({i \in SubmitAt : last.calls[i].arg = s}) = 1

\* C39 with the category list taken entry by entry: one submitPodMetadata call
\* per entry of the run's list, in order
C39_DeliveryAfterMint ==
  /\ DeliveryAfterMint
  /\ DeliverRun => ArgsOf(CallsTo("submitPodMetadata")) = last.subnets

\* ---------------------------------------------------------------- C40
\* C40: one mintPod call broadcasts at most one mintPod transaction, also
\* when a retryable error is raised after the submission went out.
C40_SingleBroadcast == mt.sent <= 1

\* what holds of the submissions of one mintPod call: through the smart
\* account at most one transaction goes out; from the EOA at most one per
\* invocation of writeContract, so at most MAX_RETRIES; a second one goes out
\* only after isRetryableError accepted the error of every earlier invocation;
\* the receipt awaited is that of the last one
C40_BroadcastsBounded ==
  /\ mt.useAA => mt.sent <= 1 /\ wr = NoRetry
  /\ ~mt.useAA /\ mt.pc # "prelude" /\ mt.out \notin {"insufficient"} /\ wr # NoRetry =>
       /\ wr.maxRetries = MAX_RETRIES /\ wr.policy = "isRetryableError"
       /\ mt.sent <= Len(wr.hist) /\ Len(wr.hist) <= MAX_RETRIES
       /\ \A i \in 1..(Len(wr.hist) - 1) : isRetryableError(AsError(wr.hist[i].err))
  /\ mt.pc \in {"receipt", "returned"} => mt.tx = mt.sent /\ mt.sent >= 1
  /\ mt.pc = "prelude" => mt.sent = 0
====
